---- MODULE Spec2Model ----
(***************************************************************************)
(* A model of the infinite 3D card carousel (src/unnamed/part_000, the     *)
(* four-colour variant; src/script-entry.js is the two-colour variant and  *)
(* shares the position engine verbatim).                                   *)
(*                                                                         *)
(* Numbers.  The program computes with IEEE doubles.  The model computes   *)
(* with fixed-point integers:                                              *)
(*   positions        in 1/PX  pixel            (PX = 100)                 *)
(*   velocities       in 1/VS  pixel per second (VS = 1000)                *)
(*   time             in 1/6 ms (TU), so that one 60 Hz frame is 100 TU,   *)
(*                    16 ms = 96, 33 ms = 198, 80 ms = 480, 800 ms = 4800  *)
(*   colour fractions in 1/FX (FX = 10000), hues in 1/1000 degree          *)
(* A product or quotient is rounded to the nearest unit, as a double       *)
(* rounds to the nearest representable value.                              *)
(***************************************************************************)
EXTENDS Integers, Sequences, FiniteSets, TLC

\* ------------------------------------------------------------------ units
PX == 10 * 10
VS == 10 * 10 * 10
TU == 2 * 3
FRAME == (100 * TU) \div 6
FX == 100 * 100

\* ----------------------------------------------------------------- bounds
\* The clock stops at MaxNow frames; the environment delivers at most
\* MaxEvents input events; a pending frame callback is run at most MaxSkip
\* frames after it was requested (while the page is visible); the images are
\* loaded and decoded, and the idle callback of init() is run, within MaxWait
\* frames.
MaxNow == 13
MaxEvents == 2
MaxSkip == 1
MaxWait == 1
\* The extractor harness hands extractColors buffers of at most MaxPixels
\* pixels; the picker harness builds histograms of at most MaxBins bins; the
\* coasting harness starts at frame CoastStart and stops the clock at frame
\* MaxCoast.
MaxPixels == 3
MaxBins == 4
CoastStart == 12
MaxDragFrames == 3
MaxScreen == 16
BgStartMs == 760
MaxBgMs == 100
MaxResizeMs == 200
MaxCoast == 312

\* ------------------------------------------------------- program constants
NumItems == 10
InitCardW == 320
GAP == 28
FRICTION_NUM == 9
FRICTION_DEN == 10
WHEEL_SENS_TENTHS == 6
WheelGain == 20
DRAG_SENS == 1
SnapHundredths == 2
FastWindowMs == 800
TweenFrames == 33
QuickMs == 16
IdleMs == 33
DebounceMs == 80
H_BINS == 36
S_BINS == 5
MaxPicks == 4
minHueGap == 32
MAX_ROTATION == 28
MAX_DEPTH == 140
MIN_SCALE_PCT == 80
SCALE_RANGE_PCT == 20
BLUR_COEF == 3
MIN_SCALE_PCT_ENTRY == 92
SCALE_RANGE_PCT_ENTRY == 10
BLUR_COEF_ENTRY == 2
MinWeightPct == 22

VARIABLES
  pc,            \* progress of the asynchronous init()
  now,           \* performance.now(), in TU
  hidden,        \* document.hidden
  gsap,          \* window.gsap is present
  hasCtx,        \* bgCanvas and bgCtx are non-null
  images,        \* what getImageData yields for each card's image
  CARD_W, STEP, TRACK, SCROLL_X, VW_HALF,
  itemsX,        \* items[i].x
  positions,
  vX, lastTime, rafId,
  isEntering, activeIndex,
  dragging, lastX, lastT, lastDelta,
  gradPalette, gradCurrent, gradTarget,
  tween,         \* the gsap tween in flight on gradCurrent, if any
  bgRAF, lastBgDraw, bgFastUntil,
  frames,        \* the frame callbacks requested and not yet run or cancelled
  resizeTimer,   \* onResize._t: the time the debounce timer fires, 0 if none
  burst,         \* the resize events of the burst last begun (their times) and
                 \* the onResize runs since its last event
  warm,          \* locals of the suspended warmupCompositing; the time
                 \* init() began to wait for requestIdleCallback
  closestIdx,    \* the nearest index found by the last position resolution
  unwrapped,     \* the value last handed to mod() for SCROLL_X
  resolved,      \* positions were resolved from the current SCROLL_X
  evts,          \* input events delivered so far
  exPx,          \* extractor harness: the pixel buffer handed to extractColors
  exIdx,         \* extractor harness: the image index handed to extractColors
  exOut,         \* extractor harness: what extractColors returned
  exPal,         \* extractor harness: the entry buildPalette stores for it
  hist,          \* picker harness: a histogram wSum, bin -> weight
  exPicks,       \* picker harness: the picks chosen from hist
  proj           \* projection harness: a screen offset, the viewport half
                 \* width and what transformForScreenX made of them

vars == <<pc, now, hidden, gsap, hasCtx, images, CARD_W, STEP, TRACK, SCROLL_X,
          VW_HALF, itemsX, positions, vX, lastTime, rafId, isEntering,
          activeIndex, dragging, lastX, lastT, lastDelta, gradPalette,
          gradCurrent, gradTarget, tween, bgRAF, lastBgDraw, bgFastUntil,
          frames, resizeTimer, burst, warm, closestIdx,
          unwrapped, resolved, evts, exPx, exIdx, exOut, exPal, hist,
          exPicks, proj>>

Undefined == <<>>
Idx == 0 .. (NumItems - 1)

\* ------------------------------------------------------------- arithmetic
Abs(x) == IF x < 0 THEN -x ELSE x
Sign(x) == IF x < 0 THEN -1 ELSE IF x > 0 THEN 1 ELSE 0
Min2(a, b) == IF a < b THEN a ELSE b
Max2(a, b) == IF a > b THEN a ELSE b

\* a / b rounded to the nearest integer, halves away from zero (b > 0)
RoundDiv(a, b) ==
  IF a >= 0 THEN (a + b \div 2) \div b ELSE -(((-a) + b \div 2) \div b)

\* a * b / c rounded to the nearest integer, without forming a * b (b, c > 0)
MulDiv(a, b, c) ==
  Sign(a) * (((Abs(a) \div c) * b) + RoundDiv((Abs(a) % c) * b, c))

\* the element of a one-element set.  Only({F(v) : v \in {e}}) is F(e) with e
\* evaluated once.
Only(S) == CHOOSE x \in S : TRUE

\* NaN, the value of n % 0; no offset the wrap produces is negative
NaN == -1

\* JavaScript's % : the remainder takes the sign of the dividend, and n % 0
\* is NaN
JsRem(n, m) ==
  IF m = 0 THEN NaN ELSE IF n >= 0 THEN n % m ELSE -((-n) % m)

\* function mod(n, m) with the fix-up for negative n dropped
ModNoFixup(n, m) == JsRem(n, m)

\* function mod(n, m) { return ((n % m) + m) % m; }
mod(n, m) == JsRem(JsRem(n, m) + m, m)

\* ------------------------------------------------------- colour utilities
\* A pixel is <<r, g, b, a>>, four 8-bit channels.  A colour is <<r, g, b>>.
Max3(a, b, c) == Max2(a, Max2(b, c))
Min3(a, b, c) == Min2(a, Min2(b, c))

\* function rgbToHsl(r, g, b): [h, s, l] with h in 1/1000 degree, s and l in
\* 1/FX.  l = (max + min) / 510, s = d / (510 - max - min) or d / (max + min),
\* h = 60 * ((g - b) / d + (g < b ? 6 : 0)) and so on, by the channel that is
\* the maximum (r is tested first, then g).
rgbToHsl(r, g, b) ==
  LET mx == Max3(r, g, b)
      mn == Min3(r, g, b)
      d == mx - mn
      l == ((mx + mn) * FX) \div 510
      num == IF mx = r THEN (g - b) + (IF g < b THEN 6 * d ELSE 0)
             ELSE IF mx = g THEN (b - r) + 2 * d
             ELSE (r - g) + 4 * d
  IN IF mx = mn THEN [h |-> 0, s |-> 0, l |-> l]
     ELSE [h |-> (60000 * num) \div d,
           s |-> IF mx + mn > 255 THEN (d * FX) \div (510 - mx - mn)
                 ELSE (d * FX) \div (mx + mn),
           l |-> l]

\* hue2rgb(p, q, t) of hslToRgb, t in 1/1000 degree of a full turn of 360000
hue2rgb(p, q, t0) ==
  LET t1 == IF t0 < 0 THEN t0 + 360000 ELSE t0
      t == IF t1 > 360000 THEN t1 - 360000 ELSE t1
  IN IF t < 60000 THEN p + RoundDiv((q - p) * t, 60000)
     ELSE IF t < 180000 THEN q
     ELSE IF t < 240000 THEN p + RoundDiv((q - p) * (240000 - t), 60000)
     ELSE p

\* Math.round(x * 255) for x in 1/FX
To255(x) == RoundDiv(x * 255, FX)

\* function hslToRgb(h, s, l)
hslToRgb(h0, s, l) ==
  LET h == mod(h0, 360000)
      q == IF 2 * l < FX THEN l + RoundDiv(l * s, FX) ELSE l + s - RoundDiv(l * s, FX)
      p == 2 * l - q
  IN IF s = 0 THEN <<To255(l), To255(l), To255(l)>>
     ELSE <<To255(hue2rgb(p, q, h + 120000)),
            To255(hue2rgb(p, q, h)),
            To255(hue2rgb(p, q, h - 120000))>>

\* function fallbackFromIndex(idx): only c1 and c2 are returned
fallbackFromIndex(idx) ==
  LET h == ((idx * 37) % 360) * 1000
  IN [c1 |-> hslToRgb(h, (65 * FX) \div 100, (52 * FX) \div 100),
      c2 |-> hslToRgb(h, (65 * FX) \div 100, (72 * FX) \div 100),
      c3 |-> Undefined, c4 |-> Undefined]

\* ------------------------------------------------------ extractColors
\* the test of the sampling loop with the saturation test left out
KeepsPixelNoSat(px) ==
  LET c == rgbToHsl(px[1], px[2], px[3])
  IN /\ ~(px[4] * 100 < 5 * 255)
     /\ ~(c.l < FX \div 10 \/ c.l > (92 * FX) \div 100)

\* the two `continue` tests of the sampling loop: the pixel is kept
KeepsPixel(px) ==
  LET c == rgbToHsl(px[1], px[2], px[3])
  IN /\ ~(px[4] * 100 < 5 * 255)
     /\ ~(c.l < FX \div 10 \/ c.l > (92 * FX) \div 100 \/ c.s < (8 * FX) \div 100)

\* w = a * (s * s) * (1 - Math.abs(l - 0.5) * 0.6), in 1/1000000.  A kept
\* pixel has a >= 13/255, s >= 0.08 and l in [0.10, 0.92], so w >= 0.0002.
PixelWeight(px) ==
  LET c == rgbToHsl(px[1], px[2], px[3])
      a == (px[4] * FX) \div 255
      lf == FX - (Abs(2 * c.l - FX) * 3) \div 10
  IN MulDiv(RoundDiv(MulDiv(c.s * c.s, a, FX), 100), lf, FX)

\* bidx = hi * S_BINS + si
PixelBin(px) ==
  LET c == rgbToHsl(px[1], px[2], px[3])
      hi == Max2(0, Min2(H_BINS - 1, (c.h * H_BINS) \div 360000))
      si == Max2(0, Min2(S_BINS - 1, (c.s * S_BINS) \div FX))
  IN hi * S_BINS + si

RECURSIVE SumOver(_, _, _, _)
\* the sum over the kept pixels of bin b, from position k on, of the weight
\* (ch = 0) or of channel ch times the weight
SumOver(px, k, b, ch) ==
  IF k > Len(px) THEN 0
  ELSE (IF KeepsPixel(px[k]) /\ PixelBin(px[k]) = b
        THEN (IF ch = 0 THEN 1 ELSE px[k][ch]) * PixelWeight(px[k]) ELSE 0)
       + SumOver(px, k + 1, b, ch)

\* wSum after the sampling loop, restricted to the bins with wSum[i] > 0
WSumOf(px) ==
  [b \in {c \in {PixelBin(px[k]) : k \in {j \in 1 .. Len(px) : KeepsPixel(px[j])}} :
            SumOver(px, 1, c, 0) > 0} |-> SumOver(px, 1, b, 0)]

RECURSIVE SortedBins(_, _)
\* indices after `indices.sort((a, b) => wSum[b] - wSum[a])`: descending weight;
\* the sort is stable and indices was filled in ascending order, so equal
\* weights keep ascending bin order
SortedBins(ws, left) ==
  IF left = {} THEN <<>>
  ELSE Only({<<top>> \o Only({SortedBins(ws, rest) : rest \in {left \ {top}}}) :
             top \in {b \in left :
                        \A c \in left : ws[c] < ws[b] \/ (ws[c] = ws[b] /\ b <= c)}})

hueOf(i) == (i \div S_BINS) * (360 \div H_BINS)
hueDist(a, b) == Min2(Abs(a - b), 360 - Abs(a - b))

\* the hue test of the pick loop without the wrap-around of hueDist
FarFromNoWrap(i, picks) ==
  \A j \in 1 .. Len(picks) : ~(Abs(hueOf(i) - hueOf(picks[j])) < minHueGap)

\* the inner loop of the pick loop: no pick is within minHueGap of bin i
FarFrom(i, picks) ==
  \A j \in 1 .. Len(picks) : ~(hueDist(hueOf(i), hueOf(picks[j])) < minHueGap)

RECURSIVE PickLoopBreakOnNear(_, _, _, _)
\* the pick loop leaving at the first bin whose hue is too near a pick
PickLoopBreakOnNear(ws, indices, k, picks) ==
  IF ~(k <= Len(indices) /\ Len(picks) < MaxPicks) THEN picks
  ELSE IF ws[indices[k]] * 100 < ws[indices[1]] * MinWeightPct THEN picks
  ELSE IF ~FarFrom(indices[k], picks) THEN picks
  ELSE PickLoopBreakOnNear(ws, indices, k + 1, Append(picks, indices[k]))

RECURSIVE PickLoop(_, _, _, _)
\* for (k = 0; k < indices.length && picks.length < 4; k++) { ... }
PickLoop(ws, indices, k, picks) ==
  IF ~(k <= Len(indices) /\ Len(picks) < MaxPicks) THEN picks
  ELSE IF ws[indices[k]] * 100 < ws[indices[1]] * MinWeightPct THEN picks
  ELSE Only({PickLoop(ws, indices, k + 1, np) :
             np \in {IF FarFrom(indices[k], picks) THEN Append(picks, indices[k])
                     ELSE picks}})

\* the picks of a histogram
Picks(ws) ==
  IF DOMAIN ws = {} THEN <<>>
  ELSE Only({PickLoop(ws, indices, 1, <<>>) :
             indices \in {SortedBins(ws, DOMAIN ws)}})

\* avgRGB(idx): the weighted average colour of a bin
avgRGB(px, i) ==
  Only({<<RoundDiv(SumOver(px, 1, i, 1), w), RoundDiv(SumOver(px, 1, i, 2), w),
          RoundDiv(SumOver(px, 1, i, 3), w)>> : w \in {SumOver(px, 1, i, 0)}})

\* s = clamp(s * 0.92, 0.30, 0.78)
ClampSat(s) ==
  Max2((30 * FX) \div 100, Min2((78 * FX) \div 100, RoundDiv(s * 92, 100)))

\* toRGBFromIdx(i, L): the bin's weighted average colour, its saturation scaled
\* by 0.92 and clamped into [0.30, 0.78], re-rendered at lightness L
toRGBFromIdx(px, i, L) ==
  Only({Only({Only({hslToRgb(c.h, s, L) : s \in {ClampSat(c.s)}}) :
              c \in {rgbToHsl(a[1], a[2], a[3])}}) :
        a \in {avgRGB(px, i)}})

\* `picks[n] ?? pIdx` falling back on the last pick instead of the primary
PickOrLast(picks, n) == IF n <= Len(picks) THEN picks[n] ELSE picks[Len(picks)]

\* picks[n] ?? pIdx
PickOr(picks, n) == IF n <= Len(picks) THEN picks[n] ELSE picks[1]

\* the palette extractColors returns for the picks of a pixel buffer
PaletteOfPicks(px, picks, idx) ==
  IF Len(picks) = 0 THEN fallbackFromIndex(idx)
  ELSE [c1 |-> toRGBFromIdx(px, picks[1], (50 * FX) \div 100),
        c2 |-> toRGBFromIdx(px, PickOr(picks, 2), (68 * FX) \div 100),
        c3 |-> toRGBFromIdx(px, PickOr(picks, 3), (60 * FX) \div 100),
        c4 |-> toRGBFromIdx(px, PickOr(picks, 4), (72 * FX) \div 100)]

\* extractColors with `catch { return fallbackFromIndex(0); }`
ExtractColorsCatchFirst(img, idx) ==
  IF ~img.ok THEN fallbackFromIndex(0)
  ELSE Only({IF DOMAIN ws = {} THEN fallbackFromIndex(idx)
             ELSE Only({PaletteOfPicks(img.px, picks, idx) : picks \in {Picks(ws)}}) :
             ws \in {WSumOf(img.px)}})

\* function extractColors(img, idx).  img.ok is false when drawing or reading
\* the canvas throws; img.px is the data getImageData returns otherwise.
extractColors(img, idx) ==
  IF ~img.ok THEN fallbackFromIndex(idx)
  ELSE Only({IF DOMAIN ws = {} THEN fallbackFromIndex(idx)
             ELSE Only({PaletteOfPicks(img.px, picks, idx) : picks \in {Picks(ws)}}) :
             ws \in {WSumOf(img.px)}})

\* mixW(c, t) of buildPalette, t in percent
mixW(c, t) == RoundDiv(c * 100 + (255 - c) * t, 100)
MixColor(c, t) == <<mixW(c[1], t), mixW(c[2], t), mixW(c[3], t)>>

\* the body of buildPalette's map for one extracted palette
EnsureExtras(pal) ==
  IF pal.c3 = Undefined \/ pal.c4 = Undefined
  THEN [pal EXCEPT !.c3 = MixColor(pal.c1, 10), !.c4 = MixColor(pal.c2, 15)]
  ELSE pal

\* function buildPalette(): gradPalette, one palette per item
buildPalette(imgs) ==
  [i \in Idx |-> Only({EnsureExtras(pal) : pal \in {extractColors(imgs[i], i)}})]

\* ------------------------------------------------------------- gradient
DefaultPal ==
  [c1 |-> <<240, 240, 240>>, c2 |-> <<235, 235, 235>>,
   c3 |-> <<248, 248, 248>>, c4 |-> <<245, 245, 245>>]

InitGradCurrent ==
  [r1 |-> 240, g1 |-> 240, b1 |-> 240, r2 |-> 235, g2 |-> 235, b2 |-> 235,
   r3 |-> 248, g3 |-> 248, b3 |-> 248, r4 |-> 245, g4 |-> 245, b4 |-> 245]

NoTween == [on |-> FALSE, from |-> <<>>, start |-> 0]

\* gradPalette[idx] || { c1: [240, 240, 240], ... }
PalAt(pals, idx) == IF idx \in DOMAIN pals THEN pals[idx] ELSE DefaultPal

\* the object `to` of setActiveGradient
ToChannels(pal) ==
  LET c3 == IF pal.c3 # Undefined THEN pal.c3 ELSE MixColor(pal.c1, 10)
      c4 == IF pal.c4 # Undefined THEN pal.c4 ELSE MixColor(pal.c2, 15)
  IN [r1 |-> pal.c1[1], g1 |-> pal.c1[2], b1 |-> pal.c1[3],
      r2 |-> pal.c2[1], g2 |-> pal.c2[2], b2 |-> pal.c2[3],
      r3 |-> c3[1], g3 |-> c3[2], b3 |-> c3[3],
      r4 |-> c4[1], g4 |-> c4[2], b4 |-> c4[3]]

\* the gradient state setActiveGradient reads and writes
G ==
  [activeIndex |-> activeIndex, gradCurrent |-> gradCurrent,
   gradTarget |-> gradTarget, bgFastUntil |-> bgFastUntil, tween |-> tween]

SetG(g) ==
  /\ activeIndex' = g.activeIndex
  /\ gradCurrent' = g.gradCurrent
  /\ gradTarget' = g.gradTarget
  /\ bgFastUntil' = g.bgFastUntil
  /\ tween' = g.tween

\* setActiveGradient taking the gsap branch without the test for window.gsap
RetargetTweenAlways(idx, pals, g) ==
  [activeIndex |-> idx, gradCurrent |-> g.gradCurrent,
   gradTarget |-> ToChannels(PalAt(pals, idx)),
   bgFastUntil |-> now + FastWindowMs * TU,
   tween |-> [on |-> TRUE, from |-> g.gradCurrent, start |-> now]]

\* the two branches of `if (window.gsap)`: start a tween and open the fast
\* window, or assign the target at once
Retarget(idx, pals, g) ==
  LET to == ToChannels(PalAt(pals, idx))
  IN IF gsap
     THEN [activeIndex |-> idx, gradCurrent |-> g.gradCurrent, gradTarget |-> to,
           bgFastUntil |-> now + FastWindowMs * TU,
           tween |-> [on |-> TRUE, from |-> g.gradCurrent, start |-> now]]
     ELSE [activeIndex |-> idx, gradCurrent |-> to, gradTarget |-> to,
           bgFastUntil |-> g.bgFastUntil, tween |-> g.tween]

\* setActiveGradient without the `idx === activeIndex` test
SetActiveGradientNoSameTest(idx, pals, g) ==
  IF ~hasCtx \/ idx < 0 \/ idx >= NumItems THEN g ELSE Retarget(idx, pals, g)

\* function setActiveGradient(idx)
setActiveGradient(idx, pals, g) ==
  IF ~hasCtx \/ idx < 0 \/ idx >= NumItems \/ idx = g.activeIndex THEN g
  ELSE Retarget(idx, pals, g)

\* The tween gsap.to(gradCurrent, {...to, duration: 0.55, ease: 'power2.out'})
\* as gsap's ticker renders it at time t: 1 - (1 - p)^2 of the way from the
\* values at its start to the target, the target itself once 0.55 s passed.
TweenRender(g, t) ==
  LET el == (t - g.tween.start) \div FRAME
      left == TweenFrames - el
  IN IF ~g.tween.on THEN g
     ELSE IF el >= TweenFrames
     THEN [g EXCEPT !.gradCurrent = g.gradTarget, !.tween = NoTween]
     ELSE [g EXCEPT !.gradCurrent =
             [c \in DOMAIN g.gradTarget |->
                g.tween.from[c]
                + RoundDiv((g.gradTarget[c] - g.tween.from[c])
                             * (TweenFrames * TweenFrames - left * left),
                           TweenFrames * TweenFrames)]]

\* ----------------------------------------------------- position engine
\* measure() with `CARD_W = r.width`
MeasureTakesZero(w, cw) ==
  [CARD_W |-> w, STEP |-> w + GAP * PX, TRACK |-> NumItems * (w + GAP * PX),
   itemsX |-> [i \in Idx |-> i * (w + GAP * PX)]]

\* measure(): r.width || CARD_W, STEP, TRACK and items[i].x
measure(w, cw) ==
  LET c == IF w # 0 THEN w ELSE cw
      st == c + GAP * PX
  IN [CARD_W |-> c, STEP |-> st, TRACK |-> NumItems * st,
      itemsX |-> [i \in Idx |-> i * st]]

\* the wrap of updateCarouselTransforms without `if (pos > half) pos -= TRACK`
WrapPosNoUpper(x, scroll, track) ==
  LET p0 == x - scroll
  IN IF 2 * p0 < -track THEN p0 + track ELSE p0

\* let pos = items[i].x - SCROLL_X; if (pos < -half) pos += TRACK;
\* if (pos > half) pos -= TRACK;          (half = TRACK / 2)
WrapPos(x, scroll, track) ==
  LET p0 == x - scroll
      p1 == IF 2 * p0 < -track THEN p0 + track ELSE p0
  IN IF 2 * p1 > track THEN p1 - track ELSE p1

\* `dist < closestDist` written `dist <= closestDist`
CloserOrEqual(dist, closestDist) == closestDist < 0 \/ dist <= closestDist

\* `dist < closestDist`; closestDist = Infinity is written -1
Closer(dist, closestDist) == closestDist < 0 \/ dist < closestDist

RECURSIVE Scan(_, _, _, _)
\* the left-to-right scan for the nearest item, from item i on
Scan(pos, i, cIdx, cDist) ==
  IF i \notin DOMAIN pos THEN cIdx
  ELSE IF Closer(Abs(pos[i]), cDist) THEN Scan(pos, i + 1, i, Abs(pos[i]))
  ELSE Scan(pos, i + 1, cIdx, cDist)

\* function updateCarouselTransforms(): the wrapped positions, the nearest
\* index and the gradient state after `if (closestIdx !== activeIndex)
\* setActiveGradient(closestIdx)`.  The element styles it writes are
\* functions of positions, closestIdx and VW_HALF.
Resolved(pos, c, pals, g) ==
  [positions |-> pos, closestIdx |-> c,
   g |-> IF c # g.activeIndex THEN setActiveGradient(c, pals, g) ELSE g]

updateCarouselTransforms(xs, scroll, track, pals, g) ==
  Only({Only({Resolved(pos, c, pals, g) : c \in {Scan(pos, 0, -1, -1)}}) :
        pos \in {[i \in DOMAIN xs |-> WrapPos(xs[i], scroll, track)]}})

SetResolved(u) ==
  /\ positions' = u.positions
  /\ closestIdx' = u.closestIdx
  /\ resolved' = TRUE
  /\ SetG(u.g)

RECURSIVE Pow(_, _)
Pow(b, k) == IF k = 0 THEN 1 ELSE b * Pow(b, k - 1)

RECURSIVE FrictionGrows(_, _)
\* the decay with the factor inverted: v / FRICTION^k
FrictionGrows(v, k) ==
  IF k = 0 THEN v
  ELSE IF k <= 4 THEN MulDiv(v, Pow(FRICTION_DEN, k), Pow(FRICTION_NUM, k))
  ELSE FrictionGrows(MulDiv(v, Pow(FRICTION_DEN, 4), Pow(FRICTION_NUM, 4)), k - 4)

RECURSIVE Decay(_, _)
\* vX *= Math.pow(FRICTION, dt * 60), with dt * 60 = k whole frames
Decay(v, k) ==
  IF k = 0 THEN v
  ELSE IF k <= 4 THEN MulDiv(v, Pow(FRICTION_NUM, k), Pow(FRICTION_DEN, k))
  ELSE Decay(MulDiv(v, Pow(FRICTION_NUM, 4), Pow(FRICTION_DEN, 4)), k - 4)

\* the tick without its snap line
NoSnap(v) == v

\* if (Math.abs(vX) < 0.02) vX = 0;
Snap(v) == IF Abs(v) < (SnapHundredths * VS) \div 100 THEN 0 ELSE v

\* vX * dt in position units, dt in TU
Travel(v, dt) == MulDiv(v, dt, (1000 * TU * VS) \div PX)

\* ------------------------------------------------------------ transforms
\* The repository ships two variants of the script: the four-colour one
\* (src/unnamed/part_000), which the rest of this module follows, and the
\* two-colour one (src/script-entry.js).  Their transform constants and their
\* blur rule differ.
Variants == {"part_000", "script-entry"}

MinScalePct(v) == IF v = "part_000" THEN MIN_SCALE_PCT ELSE MIN_SCALE_PCT_ENTRY
ScaleRangePct(v) == IF v = "part_000" THEN SCALE_RANGE_PCT ELSE SCALE_RANGE_PCT_ENTRY
BlurCoef(v) == IF v = "part_000" THEN BLUR_COEF ELSE BLUR_COEF_ENTRY

\* transformForScreenX without Math.max(-1, Math.min(1, ...))
TransformNoClamp(screenX, half, v) ==
  [den |-> half,
   ry |-> -screenX * MAX_ROTATION,
   tz |-> (half - Abs(screenX)) * MAX_DEPTH,
   scale |-> MinScalePct(v) * half + (half - Abs(screenX)) * ScaleRangePct(v)]

\* function transformForScreenX(screenX), for VW_HALF = half > 0.  The
\* results are kept exact, as numerators: norm = num / half with
\* num = clamp(screenX, -half, half), rotateY = ry / den degrees,
\* translateZ = tz / den px, scale = scale / (100 * den).
transformForScreenX(screenX, half, v) ==
  LET num == Max2(-half, Min2(half, screenX))
  IN [den |-> half,
      ry |-> -num * MAX_ROTATION,
      tz |-> (half - Abs(num)) * MAX_DEPTH,
      scale |-> MinScalePct(v) * half + (half - Abs(num)) * ScaleRangePct(v)]

\* the stacking order taken from the depth lost instead of the depth:
\* String(1000 + Math.round(MAX_DEPTH - z))
ZIndexInverted(t) == 1000 + RoundDiv(MAX_DEPTH * t.den - t.tz, t.den)

\* String(1000 + Math.round(z))
zIndexOf(t) == 1000 + RoundDiv(t.tz, t.den)

\* const isCore = ...: the nearest item; in script-entry.js also its two
\* neighbours prevIdx and nextIdx
isCore(v, i, c, n) ==
  \/ i = c
  \/ v = "script-entry" /\ i = JsRem(c - 1 + n, n)
  \/ v = "script-entry" /\ i = JsRem(c + 1, n)

\* const blur = isCore ? 0 : (3 * Math.pow(Math.abs(norm), 1.1)), kept as its
\* factors: the blur is coef * (num / den)^1.1 px
blurOf(v, i, pos, c, half) ==
  IF isCore(v, i, c, Cardinality(DOMAIN pos))
  THEN [coef |-> 0, num |-> 0, den |-> half]
  ELSE [coef |-> BlurCoef(v),
        num |-> Abs(Max2(-half, Min2(half, pos[i]))), den |-> half]

\* the styles the second loop of updateCarouselTransforms writes on item i
StyleOf(v, i, pos, c, half) ==
  [transform |-> transformForScreenX(pos[i], half, v),
   zIndex |-> zIndexOf(transformForScreenX(pos[i], half, v)),
   blur |-> blurOf(v, i, pos, c, half)]

\* the projection harness at rest
NoProjection == [v |-> "part_000", half |-> 0, x |-> 0, out |-> Undefined]

\* ------------------------------------------------------- the environment
CardWidths == {0, 300 * PX}     \* getBoundingClientRect().width
InnerWidths == {800}             \* window.innerWidth
WheelDeltas == {-100, 100}                \* the dominant of deltaX, deltaY
PointerXs == {220, 400}                   \* clientX

SamplePixel(i) ==
  <<(i * 53 + 20) % 256, (i * 101 + 40) % 256, (i * 197 + 90) % 256, 255>>

\* the images of one page: some decode to colours, some are transparent, some
\* cannot be read (a tainted canvas throws)
PageImages ==
  [i \in Idx |->
     IF i % 4 = 2 THEN [ok |-> TRUE, px |-> << <<0, 0, 0, 0>> >>]
     ELSE IF i % 4 = 3 THEN [ok |-> FALSE, px |-> <<>>]
     ELSE [ok |-> TRUE, px |-> <<SamplePixel(i), SamplePixel(i + 1)>>]]

\* --------------------------------------------------------- resize bursts
\* no resize event has been delivered yet
NoBurst == [events |-> <<>>, runs |-> 0]

\* ------------------------------------------------------ frame callbacks
\* A requested frame callback is [h |-> handle, fn |-> callback, at |-> time
\* of the request]; it runs in a later frame, and only while the page is
\* visible.
NewHandle(fr) ==
  LET free == {h \in 1 .. (Cardinality(fr) + 1) : \A f \in fr : f.h # h}
  IN CHOOSE h \in free : \A k \in free : h <= k

Request(fr, fn) == fr \cup {[h |-> NewHandle(fr), fn |-> fn, at |-> now]}

\* if (id) cancelAnimationFrame(id)
CancelFrame(fr, id) == {f \in fr : f.h # id}

Runnable(f) == ~hidden /\ now > f.at

\* the loop state startCarousel, cancelCarousel, startBG and cancelBG act on
L == [frames |-> frames, rafId |-> rafId, lastTime |-> lastTime, bgRAF |-> bgRAF]

SetL(l) ==
  /\ frames' = l.frames
  /\ rafId' = l.rafId
  /\ lastTime' = l.lastTime
  /\ bgRAF' = l.bgRAF

\* cancelCarousel without `if (rafId) cancelAnimationFrame(rafId)`
CancelCarouselKeepsFrame(l) == [l EXCEPT !.rafId = 0]

cancelCarousel(l) == [l EXCEPT !.frames = CancelFrame(l.frames, l.rafId), !.rafId = 0]

\* startCarousel without `lastTime = 0`
StartCarouselKeepsLastTime(l) ==
  LET c == cancelCarousel(l)
  IN [c EXCEPT !.rafId = NewHandle(c.frames),
               !.frames = Request(c.frames, "first")]

startCarousel(l) ==
  LET c == cancelCarousel(l)
  IN [c EXCEPT !.lastTime = 0, !.rafId = NewHandle(c.frames),
               !.frames = Request(c.frames, "first")]

cancelBG(l) == [l EXCEPT !.frames = CancelFrame(l.frames, l.bgRAF), !.bgRAF = 0]

\* startBG without cancelBG()
StartBGNoCancel(l) ==
  IF ~hasCtx THEN l
  ELSE [l EXCEPT !.bgRAF = NewHandle(l.frames), !.frames = Request(l.frames, "bg")]

startBG(l) ==
  IF ~hasCtx THEN l
  ELSE LET c == cancelBG(l)
       IN [c EXCEPT !.bgRAF = NewHandle(c.frames), !.frames = Request(c.frames, "bg")]

\* --------------------------------------------------------------- groups
layoutVars == <<CARD_W, STEP, TRACK, itemsX>>
gradVars == <<activeIndex, gradCurrent, gradTarget, bgFastUntil, tween>>
loopVars == <<frames, rafId, lastTime, bgRAF>>
dragVars == <<dragging, lastX, lastT, lastDelta>>
envVars == <<gsap, hasCtx, images>>
harnessVars == <<exPx, exIdx, exOut, exPal, hist, exPicks, proj>>

\* ----------------------------------------------------------------- Init
\* the module-level `let` and `const` initialisers, before init() runs
LoadState ==
  /\ pc = "load"
  /\ now = 0
  /\ hidden = FALSE
  /\ images = PageImages
  /\ CARD_W = InitCardW * PX
  /\ STEP = InitCardW * PX + GAP * PX
  /\ TRACK = 0
  /\ SCROLL_X = 0
  /\ VW_HALF = (1200 * PX) \div 2
  /\ itemsX = <<>>
  /\ positions = <<>>
  /\ vX = 0
  /\ lastTime = 0
  /\ rafId = 0
  /\ isEntering = TRUE
  /\ activeIndex = -1
  /\ dragging = FALSE
  /\ lastX = 0
  /\ lastT = 0
  /\ lastDelta = 0
  /\ gradPalette = <<>>
  /\ gradCurrent = InitGradCurrent
  /\ gradTarget = InitGradCurrent
  /\ tween = NoTween
  /\ bgRAF = 0
  /\ lastBgDraw = 0
  /\ bgFastUntil = 0
  /\ frames = {}
  /\ resizeTimer = 0
  /\ burst = NoBurst
  /\ warm = [i |-> 0, orig |-> 0, step |-> 0, num |-> 0, at |-> 0]
  /\ closestIdx = -1
  /\ unwrapped = 0
  /\ resolved = FALSE
  /\ evts = 0

\* the harnesses at rest
HarnessIdle ==
  /\ exPx = <<>>
  /\ exIdx = 0
  /\ exOut = Undefined
  /\ exPal = Undefined
  /\ hist = <<>>
  /\ exPicks = <<>>
  /\ proj = NoProjection

Init ==
  /\ gsap \in BOOLEAN
  /\ hasCtx \in BOOLEAN
  /\ gsap => hasCtx
  /\ LoadState
  /\ HarnessIdle

\* -------------------------------------------------------------- actions
\* Time passes by one frame.  gsap's ticker, itself a frame callback, renders
\* the tween in flight.  The clock stops at frame `limit`; a frame callback is
\* not left waiting for more than `skip` frames while the page is visible.
Elapse(limit, skip) ==
  /\ pc # "load"
  /\ now < limit * FRAME
  /\ \A f \in frames : hidden \/ now - f.at < skip * FRAME
  /\ pc = "loading" => now < MaxWait * FRAME
  /\ pc = "idle" => now - warm.at < MaxWait * FRAME
  /\ now' = now + FRAME
  /\ SetG(IF hidden THEN G ELSE TweenRender(G, now + FRAME))
  /\ UNCHANGED <<pc, hidden, envVars, layoutVars, SCROLL_X, VW_HALF, positions,
                 vX, isEntering, dragVars, gradPalette, loopVars, lastBgDraw,
                 resizeTimer, burst, warm, closestIdx, resolved, unwrapped, evts,
                 harnessVars>>

Advance == Elapse(MaxNow, MaxSkip)

\* init(), up to its first await: createCards(); measure();
\* updateCarouselTransforms()
InitSync(w) ==
  /\ pc = "load"
  /\ \E m \in {measure(w, CARD_W)} :
       /\ CARD_W' = m.CARD_W
       /\ STEP' = m.STEP
       /\ TRACK' = m.TRACK
       /\ itemsX' = m.itemsX
  /\ \E u \in {updateCarouselTransforms(itemsX', SCROLL_X, TRACK', gradPalette, G)} :
       SetResolved(u)
  /\ pc' = "loading"
  /\ UNCHANGED <<now, hidden, envVars, SCROLL_X, VW_HALF, vX, isEntering,
                 dragVars, gradPalette, loopVars, lastBgDraw, resizeTimer, burst, warm,
                 unwrapped, evts, harnessVars>>

\* warmupCompositing with its sweep loop left out: it only restores the
\* offset and resolves the positions once
WarmRunNoSweep(w, i, pals, g) ==
  [i |-> w.num, done |-> TRUE, scroll |-> w.orig, un |-> w.orig,
   u |-> updateCarouselTransforms(itemsX, w.orig, TRACK, pals, g)]

RECURSIVE WarmRun(_, _, _, _)
\* the loop of warmupCompositing from step i up to its next await: the state
\* it leaves, and whether the loop ended (then SCROLL_X = originalScrollX and
\* one more updateCarouselTransforms has run)
WarmRun(w, i, pals, g) ==
  IF i >= w.num
  THEN [i |-> i, done |-> TRUE, scroll |-> w.orig, un |-> w.orig,
        u |-> updateCarouselTransforms(itemsX, w.orig, TRACK, pals, g)]
  ELSE Only({IF i % 3 = 0
             THEN [i |-> i + 1, done |-> FALSE, scroll |-> mod(w.orig + i * w.step, TRACK),
                   un |-> w.orig + i * w.step, u |-> u]
             ELSE Only({WarmRun(w, i + 1, pals, g1) : g1 \in {u.g}}) :
             u \in {updateCarouselTransforms(itemsX, mod(w.orig + i * w.step, TRACK),
                                             TRACK, pals, g)}})

\* init() after images are loaded and decoded: buildPalette(), the scan for
\* the initial gradient, setActiveGradient(closestIdx), then
\* warmupCompositing() up to its first await
InitBuild ==
  /\ pc = "loading"
  /\ gradPalette' = buildPalette(images)
  /\ \E c \in {Scan([i \in Idx |-> WrapPos(itemsX[i], SCROLL_X, TRACK)], 0, 0, -1)} :
     \E g1 \in {setActiveGradient(c, gradPalette', G)} :
     \E w \in {[i |-> 0, orig |-> SCROLL_X, step |-> STEP \div 2,
                 num |-> (TRACK + (STEP \div 2) - 1) \div (STEP \div 2), at |-> 0]} :
     \E r \in {WarmRun(w, 0, gradPalette', g1)} :
       /\ warm' = [w EXCEPT !.i = r.i]
       /\ SCROLL_X' = r.scroll
       /\ unwrapped' = r.un
       /\ SetResolved(r.u)
       /\ frames' = Request(frames, "warm")
       /\ pc' = IF r.done THEN "warmEnd1" ELSE "warmup"
  /\ UNCHANGED <<now, hidden, envVars, layoutVars, VW_HALF, vX, lastTime, rafId,
                 isEntering, dragVars, bgRAF, lastBgDraw, resizeTimer, burst,
                 evts, harnessVars>>

\* the frame callback that resolves an await of warmupCompositing, and the
\* code that runs up to the next await
WarmFrame ==
  /\ pc = "warmup"
  /\ \E f \in frames :
       /\ f.fn = "warm"
       /\ Runnable(f)
       /\ \E r \in {WarmRun(warm, warm.i, gradPalette, G)} :
            /\ warm' = [warm EXCEPT !.i = r.i]
            /\ SCROLL_X' = r.scroll
            /\ unwrapped' = r.un
            /\ SetResolved(r.u)
            /\ frames' = Request(frames \ {f}, "warm")
            /\ pc' = IF r.done THEN "warmEnd1" ELSE "warmup"
  /\ UNCHANGED <<now, hidden, envVars, layoutVars, VW_HALF, vX, lastTime, rafId,
                 isEntering, dragVars, gradPalette, bgRAF, lastBgDraw,
                 resizeTimer, burst, evts, harnessVars>>

\* the two trailing `await new Promise(r => requestAnimationFrame(r))` of
\* warmupCompositing; after the second, init() waits for requestIdleCallback
WarmEnd ==
  /\ pc \in {"warmEnd1", "warmEnd2"}
  /\ \E f \in frames :
       /\ f.fn = "warm"
       /\ Runnable(f)
       /\ frames' = IF pc = "warmEnd1" THEN Request(frames \ {f}, "warm")
                    ELSE frames \ {f}
  /\ pc' = IF pc = "warmEnd1" THEN "warmEnd2" ELSE "idle"
  /\ warm' = [warm EXCEPT !.at = now]
  /\ UNCHANGED <<now, hidden, envVars, layoutVars, SCROLL_X, VW_HALF, positions,
                 vX, lastTime, rafId, isEntering, dragVars, gradPalette, gradVars,
                 bgRAF, lastBgDraw, resizeTimer, burst, closestIdx, resolved, unwrapped,
                 evts, harnessVars>>

\* the end of init(): isEntering = false; startCarousel(); startBG()
InitFinish ==
  /\ pc = "idle"
  /\ isEntering' = FALSE
  /\ SetL(startBG(startCarousel(L)))
  /\ pc' = "running"
  /\ UNCHANGED <<now, hidden, envVars, layoutVars, SCROLL_X, VW_HALF, positions,
                 vX, dragVars, gradPalette, gradVars, lastBgDraw, resizeTimer, burst,
                 warm, closestIdx, resolved, unwrapped, evts, harnessVars>>

\* tick with the friction applied before the offset is integrated
TickFromDecaysFirst(f, g) ==
  \E dt \in {IF lastTime # 0 THEN now - lastTime ELSE 0} :
  \E v \in {Decay(vX, dt \div FRAME)} :
  \E un \in {SCROLL_X + Travel(Snap(v), dt)} :
     /\ lastTime' = now
     /\ SCROLL_X' = mod(un, TRACK)
     /\ unwrapped' = un
     /\ vX' = Snap(v)
     /\ \E u \in {updateCarouselTransforms(itemsX, SCROLL_X', TRACK, gradPalette, g)} :
          SetResolved(u)
     /\ rafId' = NewHandle(frames \ {f})
     /\ frames' = Request(frames \ {f}, "tick")
     /\ UNCHANGED <<pc, now, hidden, envVars, layoutVars, VW_HALF, isEntering,
                    dragVars, gradPalette, bgRAF, lastBgDraw, resizeTimer, burst,
                    warm, evts, harnessVars>>

\* function tick(t), entered with the gradient state g
TickFrom(f, g) ==
  \E dt \in {IF lastTime # 0 THEN now - lastTime ELSE 0} :
  \E un \in {SCROLL_X + Travel(vX, dt)} :
  \E v \in {Decay(vX, dt \div FRAME)} :
     /\ lastTime' = now
     /\ SCROLL_X' = mod(un, TRACK)
     /\ unwrapped' = un
     /\ vX' = Snap(v)
     /\ \E u \in {updateCarouselTransforms(itemsX, SCROLL_X', TRACK, gradPalette, g)} :
          SetResolved(u)
     /\ rafId' = NewHandle(frames \ {f})
     /\ frames' = Request(frames \ {f}, "tick")
     /\ UNCHANGED <<pc, now, hidden, envVars, layoutVars, VW_HALF, isEntering,
                    dragVars, gradPalette, bgRAF, lastBgDraw, resizeTimer, burst, warm,
                    evts, harnessVars>>

\* the first frame callback of startCarousel:
\* t => { updateCarouselTransforms(); tick(t); }
CarFirst ==
  /\ \E f \in frames :
       /\ f.fn = "first"
       /\ Runnable(f)
       /\ \E u \in {updateCarouselTransforms(itemsX, SCROLL_X, TRACK, gradPalette, G)} :
            TickFrom(f, u.g)

\* the frame callback tick
Tick ==
  /\ \E f \in frames :
       /\ f.fn = "tick"
       /\ Runnable(f)
       /\ TickFrom(f, G)

\* drawBackground's throttle with minInterval = 16 whether quick or not
ThrottledAlwaysQuick(t, last, fastUntil) == t - last < QuickMs * TU

\* const quick = (now < bgFastUntil); const minInterval = quick ? 16 : 33;
\* if (now - lastBgDraw < minInterval) { ...; return; }
Throttled(t, last, fastUntil) ==
  t - last < (IF t < fastUntil THEN QuickMs * TU ELSE IdleMs * TU)

\* drawBackground with a paint that also finishes the colour transition
\* itself: Object.assign(gradCurrent, target) before it draws
DrawBackgroundSettles ==
  /\ \E f \in frames :
       /\ f.fn = "bg"
       /\ Runnable(f)
       /\ LET fr == frames \ {f}
          IN IF ~hasCtx
             THEN /\ frames' = fr
                  /\ UNCHANGED <<bgRAF, lastBgDraw, gradCurrent>>
             ELSE /\ frames' = Request(fr, "bg")
                  /\ bgRAF' = NewHandle(fr)
                  /\ lastBgDraw' = IF Throttled(now, lastBgDraw, bgFastUntil)
                                   THEN lastBgDraw ELSE now
                  /\ gradCurrent' = IF Throttled(now, lastBgDraw, bgFastUntil)
                                    THEN gradCurrent ELSE gradTarget
  /\ UNCHANGED <<pc, now, hidden, envVars, layoutVars, SCROLL_X, VW_HALF,
                 positions, vX, lastTime, rafId, isEntering, dragVars,
                 gradPalette, activeIndex, gradTarget, bgFastUntil, tween,
                 resizeTimer, burst, warm, closestIdx, resolved, unwrapped,
                 evts, harnessVars>>

\* the frame callback drawBackground: throttled, or a paint
DrawBackground ==
  /\ \E f \in frames :
       /\ f.fn = "bg"
       /\ Runnable(f)
       /\ LET fr == frames \ {f}
          IN IF ~hasCtx
             THEN /\ frames' = fr
                  /\ UNCHANGED <<bgRAF, lastBgDraw>>
             ELSE /\ frames' = Request(fr, "bg")
                  /\ bgRAF' = NewHandle(fr)
                  /\ lastBgDraw' = IF Throttled(now, lastBgDraw, bgFastUntil)
                                   THEN lastBgDraw ELSE now
  /\ UNCHANGED <<pc, now, hidden, envVars, layoutVars, SCROLL_X, VW_HALF,
                 positions, vX, lastTime, rafId, isEntering, dragVars,
                 gradPalette, gradVars, resizeTimer, burst, warm, closestIdx, resolved, unwrapped,
                 evts, harnessVars>>

\* the wheel listener without `if (isEntering) return;`
WheelWhileEntering(delta) ==
  /\ pc # "load"
  /\ evts < MaxEvents
  /\ evts' = evts + 1
  /\ vX' = vX + (delta * WHEEL_SENS_TENTHS * WheelGain * VS) \div 10
  /\ UNCHANGED <<pc, now, hidden, envVars, layoutVars, SCROLL_X, VW_HALF,
                 positions, isEntering, dragVars, gradPalette, gradVars,
                 loopVars, lastBgDraw, resizeTimer, burst, warm, closestIdx,
                 resolved, unwrapped, harnessVars>>

\* the wheel listener
Wheel(delta) ==
  /\ pc # "load"
  /\ evts < MaxEvents
  /\ evts' = evts + 1
  /\ vX' = IF isEntering THEN vX
           ELSE vX + (delta * WHEEL_SENS_TENTHS * WheelGain * VS) \div 10
  /\ UNCHANGED <<pc, now, hidden, envVars, layoutVars, SCROLL_X, VW_HALF,
                 positions, isEntering, dragVars, gradPalette, gradVars,
                 loopVars, lastBgDraw, resizeTimer, burst, warm, closestIdx, resolved, unwrapped,
                 harnessVars>>

\* the pointerdown listener
PointerDown(x) ==
  /\ pc # "load"
  /\ evts < MaxEvents
  /\ evts' = evts + 1
  /\ IF isEntering THEN UNCHANGED dragVars
     ELSE /\ dragging' = TRUE
          /\ lastX' = x
          /\ lastT' = now
          /\ lastDelta' = 0
  /\ UNCHANGED <<pc, now, hidden, envVars, layoutVars, SCROLL_X, VW_HALF,
                 positions, vX, isEntering, gradPalette, gradVars, loopVars,
                 lastBgDraw, resizeTimer, burst, warm, closestIdx, resolved, unwrapped,
                 harnessVars>>

\* the pointermove listener
PointerMove(x) ==
  /\ pc # "load"
  /\ evts < MaxEvents
  /\ evts' = evts + 1
  /\ IF ~dragging THEN UNCHANGED <<SCROLL_X, unwrapped, resolved, dragVars>>
     ELSE LET dx == x - lastX
              dt == Max2(1 * TU, now - lastT)
              un == SCROLL_X - dx * PX * DRAG_SENS
          IN /\ SCROLL_X' = mod(un, TRACK)
             /\ unwrapped' = un
             /\ lastDelta' = MulDiv(dx * VS, 1000 * TU, dt)
             /\ lastX' = x
             /\ lastT' = now
             /\ resolved' = FALSE
             /\ UNCHANGED dragging
  /\ UNCHANGED <<pc, now, hidden, envVars, layoutVars, VW_HALF, positions, vX,
                 isEntering, gradPalette, gradVars, loopVars, lastBgDraw,
                 resizeTimer, burst, warm, closestIdx, harnessVars>>

\* the pointerup listener with `vX += -lastDelta * DRAG_SENS`
PointerUpAccumulates ==
  /\ pc # "load"
  /\ evts < MaxEvents
  /\ evts' = evts + 1
  /\ IF ~dragging THEN UNCHANGED <<dragging, vX>>
     ELSE /\ dragging' = FALSE
          /\ vX' = vX - lastDelta * DRAG_SENS
  /\ UNCHANGED <<pc, now, hidden, envVars, layoutVars, SCROLL_X, VW_HALF,
                 positions, isEntering, lastX, lastT, lastDelta, gradPalette,
                 gradVars, loopVars, lastBgDraw, resizeTimer, burst, warm, closestIdx, resolved,
                 unwrapped, harnessVars>>

\* the pointerup listener
PointerUp ==
  /\ pc # "load"
  /\ evts < MaxEvents
  /\ evts' = evts + 1
  /\ IF ~dragging THEN UNCHANGED <<dragging, vX>>
     ELSE /\ dragging' = FALSE
          /\ vX' = -lastDelta * DRAG_SENS
  /\ UNCHANGED <<pc, now, hidden, envVars, layoutVars, SCROLL_X, VW_HALF,
                 positions, isEntering, lastX, lastT, lastDelta, gradPalette,
                 gradVars, loopVars, lastBgDraw, resizeTimer, burst, warm, closestIdx, resolved,
                 unwrapped, harnessVars>>

\* the resize listener without clearTimeout: a timer already pending is left
\* to fire and no new one is scheduled
ResizeEventKeepsTimer ==
  /\ pc # "load"
  /\ evts < MaxEvents
  /\ evts' = evts + 1
  /\ resizeTimer' = IF resizeTimer # 0 THEN resizeTimer ELSE now + DebounceMs * TU
  /\ burst' = IF burst.runs > 0 THEN [events |-> <<now>>, runs |-> 0]
              ELSE [burst EXCEPT !.events = Append(@, now)]
  /\ UNCHANGED <<pc, now, hidden, envVars, layoutVars, SCROLL_X, VW_HALF,
                 positions, vX, isEntering, dragVars, gradPalette, gradVars,
                 loopVars, lastBgDraw, warm, closestIdx, resolved, unwrapped,
                 harnessVars>>

\* the resize listener: clearTimeout(onResize._t);
\* onResize._t = setTimeout(onResize, 80)
ResizeEvent ==
  /\ pc # "load"
  /\ evts < MaxEvents
  /\ evts' = evts + 1
  /\ resizeTimer' = now + DebounceMs * TU
  /\ burst' = IF burst.runs > 0 THEN [events |-> <<now>>, runs |-> 0]
              ELSE [burst EXCEPT !.events = Append(@, now)]
  /\ UNCHANGED <<pc, now, hidden, envVars, layoutVars, SCROLL_X, VW_HALF,
                 positions, vX, isEntering, dragVars, gradPalette, gradVars,
                 loopVars, lastBgDraw, warm, closestIdx, resolved, unwrapped,
                 harnessVars>>

\* function onResize(), run by the debounce timer; w is the card width
\* measured and iw the window's inner width
OnResize(w, iw) ==
  /\ resizeTimer # 0
  /\ now >= resizeTimer
  /\ resizeTimer' = 0
  /\ burst' = [burst EXCEPT !.runs = @ + 1]
  /\ \E m \in {IF DOMAIN itemsX = {}      \* measure(): if (!sample) return;
               THEN [CARD_W |-> CARD_W, STEP |-> STEP, TRACK |-> TRACK,
                     itemsX |-> itemsX]
               ELSE measure(w, CARD_W)} :
       /\ CARD_W' = m.CARD_W
       /\ STEP' = m.STEP
       /\ TRACK' = m.TRACK
       /\ itemsX' = m.itemsX
  /\ VW_HALF' = (iw * PX) \div 2
  /\ unwrapped' = MulDiv(SCROLL_X, STEP', IF STEP # 0 THEN STEP ELSE 1)
  /\ SCROLL_X' = mod(unwrapped', TRACK')
  /\ \E u \in {updateCarouselTransforms(itemsX', SCROLL_X', TRACK', gradPalette, G)} :
       SetResolved(u)
  /\ UNCHANGED <<pc, now, hidden, envVars, vX, isEntering, dragVars,
                 gradPalette, loopVars, lastBgDraw, warm, evts,
                 harnessVars>>

\* the visibilitychange listener
VisibilityChange ==
  /\ pc # "load"
  /\ evts < MaxEvents
  /\ evts' = evts + 1
  /\ hidden' = ~hidden
  /\ SetL(IF ~hidden THEN cancelBG(cancelCarousel(L))
          ELSE startBG(startCarousel(L)))
  /\ UNCHANGED <<pc, now, envVars, layoutVars, SCROLL_X, VW_HALF, positions, vX,
                 isEntering, dragVars, gradPalette, gradVars, lastBgDraw,
                 resizeTimer, burst, warm, closestIdx, resolved, unwrapped, harnessVars>>

Next ==
  \/ Advance
  \/ \E w \in CardWidths : InitSync(w)
  \/ InitBuild
  \/ WarmFrame
  \/ WarmEnd
  \/ InitFinish
  \/ CarFirst
  \/ Tick
  \/ DrawBackground
  \/ \E d \in WheelDeltas : Wheel(d)
  \/ \E x \in PointerXs : PointerDown(x)
  \/ \E x \in PointerXs : PointerMove(x)
  \/ PointerUp
  \/ ResizeEvent
  \/ \E w \in CardWidths, iw \in InnerWidths : OnResize(w, iw)
  \/ VisibilityChange

Spec == Init /\ [][Next]_vars

\* ------------------------------------------------- the extractor harness
\* extractColors and buildPalette's map applied to pixel buffers: colourful
\* pixels of several hues, and pixels each test of the sampling loop drops
ExPixels ==
  {<<200, 40, 40, 255>>, <<200, 40, 67, 255>>, <<40, 200, 40, 255>>,
   <<40, 40, 200, 255>>, <<200, 200, 40, 255>>, <<128, 128, 128, 255>>,
   <<100, 100, 104, 255>>, <<10, 5, 5, 255>>, <<250, 245, 250, 255>>,
   <<0, 0, 0, 0>>, <<200, 40, 40, 12>>}

ExIdxs == {0, NumItems - 1}

InitExtract ==
  /\ gsap = FALSE
  /\ hasCtx = TRUE
  /\ LoadState
  /\ exPx = <<>>
  /\ exIdx \in ExIdxs
  /\ exOut = Undefined
  /\ exPal = Undefined
  /\ hist = <<>>
  /\ exPicks = <<>>
  /\ proj = NoProjection

programVars ==
  <<pc, now, hidden, envVars, layoutVars, SCROLL_X, VW_HALF, positions, vX,
    isEntering, dragVars, gradPalette, gradVars, loopVars, lastBgDraw,
    resizeTimer, burst, warm, closestIdx, resolved, unwrapped, evts>>

\* getImageData yields one more pixel
AddPixel(p) ==
  /\ exOut = Undefined
  /\ Len(exPx) < MaxPixels
  /\ exPx' = Append(exPx, p)
  /\ UNCHANGED <<programVars, proj, exIdx, exOut, exPal, hist, exPicks>>

\* one iteration of buildPalette's map: extractColors(img, i), then the test
\* for the extras; exPicks keeps the picks of the buffer's histogram
Extract ==
  /\ exOut = Undefined
  /\ Len(exPx) > 0
  /\ exOut' = extractColors([ok |-> TRUE, px |-> exPx], exIdx)
  /\ exPal' = EnsureExtras(exOut')
  /\ exPicks' = Picks(WSumOf(exPx))
  /\ UNCHANGED <<programVars, proj, exPx, exIdx, hist>>

\* the same iteration when drawImage or getImageData throws
ExtractThrows ==
  /\ exOut = Undefined
  /\ exPx = <<>>
  /\ exOut' = extractColors([ok |-> FALSE, px |-> <<>>], exIdx)
  /\ exPal' = EnsureExtras(exOut')
  /\ UNCHANGED <<programVars, proj, exPx, exIdx, hist, exPicks>>

NextExtract ==
  \/ \E p \in ExPixels : AddPixel(p)
  \/ Extract
  \/ ExtractThrows

SpecExtract == InitExtract /\ [][NextExtract]_vars

\* --------------------------------------------------- the picker harness
\* the sort and the pick loop of extractColors applied to histograms: bins at
\* hues 0, 30, 40, 180 and 350 degrees
HistBins == {2, 17, 22, 92, 177}
HistWeights == {20, 25, 100}

InitPicks ==
  /\ gsap = FALSE
  /\ hasCtx = TRUE
  /\ LoadState
  /\ HarnessIdle

\* wSum[b] = w
AddBin(b, w) ==
  /\ exPicks = <<>>
  /\ b \notin DOMAIN hist
  /\ Cardinality(DOMAIN hist) < MaxBins
  /\ hist' = [c \in DOMAIN hist \cup {b} |-> IF c = b THEN w ELSE hist[c]]
  /\ UNCHANGED <<programVars, proj, exPx, exIdx, exOut, exPal, exPicks>>

\* indices.sort(...) and the pick loop
Pick ==
  /\ exPicks = <<>>
  /\ DOMAIN hist # {}
  /\ exPicks' = Picks(hist)
  /\ UNCHANGED <<programVars, proj, exPx, exIdx, exOut, exPal, hist>>

NextPicks ==
  \/ \E b \in HistBins, w \in HistWeights : AddBin(b, w)
  \/ Pick

SpecPicks == InitPicks /\ [][NextPicks]_vars

\* ------------------------------------------------- the coasting harness
\* The carousel loop alone, on a page without a background canvas, from the
\* state init() leaves, with the velocity some input has given: time passes
\* frame by frame and tick runs in every frame.
CoastVelocities ==
  {5 * VS, -5 * VS, 10, 19, 20, 1200 * VS, -2400 * VS, 100000 * VS}

InitCoast ==
  /\ pc = "running"
  /\ now = CoastStart * FRAME
  /\ hidden = FALSE
  /\ gsap = FALSE
  /\ hasCtx = FALSE
  /\ images = PageImages
  /\ \E m \in {measure(0, InitCardW * PX)} :
       /\ CARD_W = m.CARD_W
       /\ STEP = m.STEP
       /\ TRACK = m.TRACK
       /\ itemsX = m.itemsX
       /\ positions = [i \in Idx |-> WrapPos(m.itemsX[i], 0, m.TRACK)]
       /\ warm = [i |-> 2 * NumItems, orig |-> 0, step |-> m.STEP \div 2,
                  num |-> 2 * NumItems, at |-> (CoastStart - 2) * FRAME]
  /\ SCROLL_X = 0
  /\ VW_HALF = (1200 * PX) \div 2
  /\ vX \in CoastVelocities
  /\ lastTime = CoastStart * FRAME
  /\ rafId = 1
  /\ isEntering = FALSE
  /\ activeIndex = -1
  /\ dragging = FALSE
  /\ lastX = 0
  /\ lastT = 0
  /\ lastDelta = 0
  /\ gradPalette = buildPalette(PageImages)
  /\ gradCurrent = InitGradCurrent
  /\ gradTarget = InitGradCurrent
  /\ tween = NoTween
  /\ bgRAF = 0
  /\ lastBgDraw = 0
  /\ bgFastUntil = 0
  /\ frames = {[h |-> 1, fn |-> "tick", at |-> CoastStart * FRAME]}
  /\ resizeTimer = 0
  /\ burst = NoBurst
  /\ closestIdx = 0
  /\ unwrapped = 0
  /\ resolved = TRUE
  /\ evts = 0
  /\ HarnessIdle

\* a frame passes; the frame callback requested runs in the very next frame
Coast == Elapse(MaxCoast, 1)

NextCoast ==
  \/ Coast
  \/ Tick

\* while the page is visible the browser keeps delivering frames, and runs
\* the frame callback requested
SpecCoast == InitCoast /\ [][NextCoast]_vars /\ WF_vars(Coast) /\ WF_vars(Tick)

\* ------------------------------------------- the projection harness
\* transformForScreenX applied to screen offsets on either side of the
\* center, inside and beyond the viewport, for the two viewport widths the
\* page takes (1200 px and 800 px) and for both variants' constants
ViewportHalves == {400 * PX, 600 * PX}
ScreenXs == {k * 50 * PX : k \in (-MaxScreen) .. MaxScreen} \cup {-1, 1}

InitProject ==
  /\ gsap = FALSE
  /\ hasCtx = TRUE
  /\ LoadState
  /\ exPx = <<>>
  /\ exIdx = 0
  /\ exOut = Undefined
  /\ exPal = Undefined
  /\ hist = <<>>
  /\ exPicks = <<>>
  /\ \E v \in Variants, h \in ViewportHalves :
       proj = [v |-> v, half |-> h, x |-> 0, out |-> Undefined]

Project(x) ==
  /\ proj' = [proj EXCEPT !.x = x,
                          !.out = transformForScreenX(x, proj.half, proj.v)]
  /\ UNCHANGED <<programVars, exPx, exIdx, exOut, exPal, hist, exPicks>>

NextProject == \E x \in ScreenXs : Project(x)

SpecProject == InitProject /\ [][NextProject]_vars

\* ------------------------------------------------ the running page
\* The layout, palettes and bookkeeping init() leaves on the page of ten
\* cards at time t, with the carousel at rest at offset 0.
RunningAt(t) ==
  /\ pc = "running"
  /\ now = t
  /\ hidden = FALSE
  /\ images = PageImages
  /\ \E m \in {measure(0, InitCardW * PX)} :
       /\ CARD_W = m.CARD_W
       /\ STEP = m.STEP
       /\ TRACK = m.TRACK
       /\ itemsX = m.itemsX
       /\ positions = [i \in Idx |-> WrapPos(m.itemsX[i], 0, m.TRACK)]
       /\ warm = [i |-> 2 * NumItems, orig |-> 0, step |-> m.STEP \div 2,
                  num |-> 2 * NumItems, at |-> 0]
  /\ SCROLL_X = 0
  /\ VW_HALF = (1200 * PX) \div 2
  /\ lastTime = t
  /\ isEntering = FALSE
  /\ gradPalette = buildPalette(PageImages)
  /\ gradCurrent = InitGradCurrent
  /\ gradTarget = InitGradCurrent
  /\ tween = NoTween
  /\ resizeTimer = 0
  /\ burst = NoBurst
  /\ closestIdx = 0
  /\ unwrapped = 0
  /\ resolved = TRUE
  /\ evts = 0
  /\ HarnessIdle

\* --------------------------------------------------- the drag harness
\* The carousel loop and the wheel, pointer and visibilitychange listeners on
\* the running page (no background canvas), the carousel at rest or coasting
\* at 600 px/s after an earlier wheel turn, and possibly a press at x = 400
\* just made.
DragVelocities == {0, 600 * VS}

InitDrag ==
  /\ RunningAt(CoastStart * FRAME)
  /\ gsap = FALSE
  /\ hasCtx = FALSE
  /\ vX \in DragVelocities
  /\ dragging \in BOOLEAN
  /\ lastX = IF dragging THEN 400 ELSE 0
  /\ lastT = IF dragging THEN now ELSE 0
  /\ lastDelta = 0
  /\ activeIndex = -1
  /\ rafId = 1
  /\ bgRAF = 0
  /\ lastBgDraw = 0
  /\ bgFastUntil = 0
  /\ frames = {[h |-> 1, fn |-> "tick", at |-> CoastStart * FRAME]}

NextDrag ==
  \/ Elapse(CoastStart + MaxDragFrames, 1)
  \/ CarFirst
  \/ Tick
  \/ VisibilityChange
  \/ \E d \in WheelDeltas : Wheel(d)
  \/ \E x \in PointerXs : PointerDown(x)
  \/ \E x \in PointerXs : PointerMove(x)
  \/ PointerUp

SpecDrag == InitDrag /\ [][NextDrag]_vars

\* --------------------------------------------- the background harness
\* Both loops on a page with a background canvas, BgStartMs after load, the
\* carousel at rest.  With gsap the retarget init() made at time 0 opened a
\* fast window that is still open.  The display delivers frames whose
\* timestamps are whole milliseconds, 8, 16 or 17 ms apart, and every pending
\* frame callback runs in every frame.
FramePeriodsMs == {8, 16, 17}

InitBg ==
  /\ RunningAt(BgStartMs * TU)
  /\ gsap \in BOOLEAN
  /\ hasCtx = TRUE
  /\ vX = 0
  /\ dragging = FALSE
  /\ lastX = 0
  /\ lastT = 0
  /\ lastDelta = 0
  /\ activeIndex = 0
  /\ rafId = 1
  /\ bgRAF = 2
  /\ lastBgDraw = BgStartMs * TU
  /\ bgFastUntil = IF gsap THEN FastWindowMs * TU ELSE 0
  /\ frames = {[h |-> 1, fn |-> "tick", at |-> BgStartMs * TU],
               [h |-> 2, fn |-> "bg", at |-> BgStartMs * TU]}

BgFrame(ms) ==
  /\ now + ms * TU <= (BgStartMs + MaxBgMs) * TU
  /\ \A f \in frames : f.at = now
  /\ now' = now + ms * TU
  /\ UNCHANGED <<pc, hidden, envVars, layoutVars, SCROLL_X, VW_HALF, positions,
                 vX, isEntering, dragVars, gradPalette, gradVars, loopVars,
                 lastBgDraw, resizeTimer, burst, warm, closestIdx, resolved,
                 unwrapped, evts, harnessVars>>

NextBg ==
  \/ \E ms \in FramePeriodsMs : BgFrame(ms)
  \/ Tick
  \/ DrawBackground

SpecBg == InitBg /\ [][NextBg]_vars

\* --------------------------------------------- the empty-track harness
\* The page has no #cards element: createCards() throws on its first line and
\* init() ends there, with items = [], TRACK = 0, isEntering = true and no
\* loop started.  The listeners registered at module level stay live.
InitNoCards ==
  /\ gsap = FALSE
  /\ hasCtx \in BOOLEAN
  /\ pc = "aborted"
  /\ now = 0
  /\ hidden = FALSE
  /\ images = PageImages
  /\ CARD_W = InitCardW * PX
  /\ STEP = InitCardW * PX + GAP * PX
  /\ TRACK = 0
  /\ SCROLL_X = 0
  /\ VW_HALF = (1200 * PX) \div 2
  /\ itemsX = <<>>
  /\ positions = <<>>
  /\ vX = 0
  /\ lastTime = 0
  /\ rafId = 0
  /\ isEntering = TRUE
  /\ activeIndex = -1
  /\ dragging = FALSE
  /\ lastX = 0
  /\ lastT = 0
  /\ lastDelta = 0
  /\ gradPalette = <<>>
  /\ gradCurrent = InitGradCurrent
  /\ gradTarget = InitGradCurrent
  /\ tween = NoTween
  /\ bgRAF = 0
  /\ lastBgDraw = 0
  /\ bgFastUntil = 0
  /\ frames = {}
  /\ resizeTimer = 0
  /\ burst = NoBurst
  /\ warm = [i |-> 0, orig |-> 0, step |-> 0, num |-> 0, at |-> 0]
  /\ closestIdx = -1
  /\ unwrapped = 0
  /\ resolved = FALSE
  /\ evts = 0
  /\ HarnessIdle

NextNoCards ==
  \/ Advance
  \/ CarFirst
  \/ Tick
  \/ DrawBackground
  \/ \E d \in WheelDeltas : Wheel(d)
  \/ \E x \in PointerXs : PointerDown(x)
  \/ \E x \in PointerXs : PointerMove(x)
  \/ PointerUp
  \/ ResizeEvent
  \/ \E w \in CardWidths, iw \in InnerWidths : OnResize(w, iw)
  \/ VisibilityChange

SpecNoCards == InitNoCards /\ [][NextNoCards]_vars

\* ------------------------------------------------- the resize harness
\* The running page (no background canvas), BgStartMs after load, the carousel
\* at rest.  The display delivers frames 20 or 30 ms apart and the pending
\* tick runs in every frame; the window is resized, and the card then measures
\* 0 (not laid out), 240 or 300 px wide in a window 800 or 1200 px wide.
ResizePeriodsMs == {20, 30}
ResizeWidths == {0, 240 * PX, 300 * PX}
ResizeInnerWidths == {800, 1200}

InitResize ==
  /\ RunningAt(BgStartMs * TU)
  /\ gsap = FALSE
  /\ hasCtx = FALSE
  /\ vX = 0
  /\ dragging = FALSE
  /\ lastX = 0
  /\ lastT = 0
  /\ lastDelta = 0
  /\ activeIndex = -1
  /\ rafId = 1
  /\ bgRAF = 0
  /\ lastBgDraw = 0
  /\ bgFastUntil = 0
  /\ frames = {[h |-> 1, fn |-> "tick", at |-> BgStartMs * TU]}

ResizeFrame(ms) ==
  /\ now + ms * TU <= (BgStartMs + MaxResizeMs) * TU
  /\ \A f \in frames : f.at = now
  /\ now' = now + ms * TU
  /\ UNCHANGED <<pc, hidden, envVars, layoutVars, SCROLL_X, VW_HALF, positions,
                 vX, isEntering, dragVars, gradPalette, gradVars, loopVars,
                 lastBgDraw, resizeTimer, burst, warm, closestIdx, resolved,
                 unwrapped, evts, harnessVars>>

NextResize ==
  \/ \E ms \in ResizePeriodsMs : ResizeFrame(ms)
  \/ Tick
  \/ ResizeEvent
  \/ \E w \in ResizeWidths, iw \in ResizeInnerWidths : OnResize(w, iw)

SpecResize == InitResize /\ [][NextResize]_vars

\* ================================================================ claims
\* a carousel frame callback (tick) with dt > 0 ran in this step
TickStep == lastTime # 0 /\ lastTime' # 0 /\ lastTime' # lastTime

\* C1: once the track is laid out (TRACK > 0) the scroll offset satisfies
\* 0 <= SCROLL_X < TRACK and is congruent modulo TRACK to the unwrapped value
\* it was computed from, whatever ticks, wheel, pointer, resize and warmup
\* steps led to the state.
C1_OffsetNormalized ==
  TRACK > 0 =>
    /\ 0 <= SCROLL_X
    /\ SCROLL_X < TRACK
    /\ (SCROLL_X - unwrapped) % TRACK = 0

\* a drag to the right from offset 0: a negative value was wrapped
C1_NegativeWrapped ==
  TRACK > 0 /\ dragging /\ unwrapped < 0 /\ SCROLL_X = TRACK + unwrapped

\* C2: after a position resolution every item's wrapped position lies in
\* [-TRACK/2, TRACK/2] and equals items[i].x - SCROLL_X + k * TRACK for some
\* k in {-1, 0, 1}.
C2_WrappedPositions ==
  (TRACK > 0 /\ resolved) =>
    \A i \in Idx :
      /\ -TRACK <= 2 * positions[i]
      /\ 2 * positions[i] <= TRACK
      /\ \E k \in {-1, 0, 1} : positions[i] = itemsX[i] - SCROLL_X + k * TRACK

\* a resolution at a non-zero offset in which an item was wrapped down by TRACK
C2_WrappedDown ==
  /\ TRACK > 0
  /\ resolved
  /\ SCROLL_X > 0
  /\ \E i \in Idx : positions[i] = itemsX[i] - SCROLL_X - TRACK

\* C3: the index a position resolution reports nearest the centre is the
\* smallest index among the items whose |wrapped position| is minimal.
C3_LowestIndexNearest ==
  (TRACK > 0 /\ resolved) =>
    /\ closestIdx \in Idx
    /\ \A i \in Idx :
         /\ Abs(positions[closestIdx]) <= Abs(positions[i])
         /\ Abs(positions[i]) = Abs(positions[closestIdx]) => closestIdx <= i

\* a resolution at an odd multiple of STEP / 2: two items are equidistant
C3_Tie ==
  /\ TRACK > 0
  /\ resolved
  /\ 2 * SCROLL_X = 3 * STEP
  /\ \E i \in Idx :
       i # closestIdx /\ Abs(positions[i]) = Abs(positions[closestIdx])

\* C4: a carousel tick with dt > 0 never increases the magnitude of the
\* velocity and never changes its sign.
C4_FrictionMonotone ==
  [][TickStep => (Abs(vX') <= Abs(vX) /\ Sign(vX') * Sign(vX) >= 0)]_vars

\* one wheel impulse of 100 (1200 px/s) decayed by one 60 Hz frame
C4_Decayed == lastTime # 0 /\ Abs(vX) = 1080 * VS

\* C5: with the loop running and no further input the velocity becomes
\* exactly 0 and stays 0, and the offset then stops changing; every velocity
\* started from, 5 px/s included, is 0 after 300 ticks at 60 Hz; after every
\* tick the velocity is 0 or at least 0.02 in magnitude.
C5_CoastStops ==
  /\ <>[](vX = 0)
  /\ [][vX = 0 => (vX' = 0 /\ SCROLL_X' = SCROLL_X)]_vars
  /\ [][lastTime' # lastTime =>
          (vX' = 0 \/ Abs(vX') >= VS \div 50)]_vars
  /\ [][lastTime' >= (CoastStart + 300) * FRAME => vX' = 0]_vars

\* the velocity was snapped to 0 after the offset had moved
C5_Stopped == vX = 0 /\ SCROLL_X # 0 /\ lastTime > CoastStart * FRAME

\* C6: setActiveGradient(idx) with idx equal to activeIndex changes neither
\* activeIndex, the target, the current channels, bgFastUntil nor the tween:
\* so for init()'s call after buildPalette when the index was already active,
\* and for every carousel tick whose nearest index is the active one.
C6_SameIndexNoOp ==
  [][((pc = "loading" /\ pc' # "loading" /\ closestIdx = activeIndex)
      \/ (TickStep /\ closestIdx' = activeIndex))
     => UNCHANGED gradVars]_vars

\* init() called setActiveGradient(0) one frame after index 0 became active:
\* the tween started then is still the one in flight
C6_NotRestarted ==
  /\ pc = "warmup"
  /\ gsap
  /\ gradPalette # <<>>
  /\ activeIndex = 0
  /\ now > 0
  /\ tween.on
  /\ tween.start = 0

\* C7: without window.gsap a change of the active index leaves the current
\* channels equal to the channels of the new index's palette at once, and
\* bgFastUntil keeps its initial value 0; no tween exists.
C7_NoTweenImmediate ==
  [][~gsap =>
       /\ bgFastUntil' = 0
       /\ ~tween'.on
       /\ activeIndex' # activeIndex =>
            /\ gradCurrent' = ToChannels(PalAt(gradPalette', activeIndex'))
            /\ gradTarget' = gradCurrent']_vars

\* without gsap the gradient shows the extracted palette of a later item
C7_Assigned ==
  /\ ~gsap
  /\ activeIndex > 0
  /\ gradPalette # <<>>
  /\ gradCurrent = ToChannels(gradPalette[activeIndex])
  /\ gradCurrent # InitGradCurrent

\* the filter as the specification states it: a pixel is discarded if
\* alpha < 0.05, lightness < 0.10 or > 0.92, or saturation < 0.08
StatedPass(p) ==
  /\ 100 * p[4] >= 5 * 255
  /\ 10 * rgbToHsl(p[1], p[2], p[3]).l >= FX
  /\ 100 * rgbToHsl(p[1], p[2], p[3]).l <= 92 * FX
  /\ 100 * rgbToHsl(p[1], p[2], p[3]).s >= 8 * FX

\* the fallback as the specification states it: hue (index * 37) mod 360,
\* saturation 0.65, lightness 0.52 and 0.72, and no further slot
StatedFallback(idx) ==
  [c1 |-> hslToRgb(((idx * 37) % 360) * 1000, 6500, 5200),
   c2 |-> hslToRgb(((idx * 37) % 360) * 1000, 6500, 7200),
   c3 |-> Undefined, c4 |-> Undefined]

\* C8: extractColors returns the index-derived fallback palette exactly when
\* no sampled pixel passes the filter.
C8_FallbackIffNoPixelPasses ==
  exOut # Undefined =>
    (exOut = StatedFallback(exIdx)
       <=> \A k \in 1 .. Len(exPx) : ~StatedPass(exPx[k]))

\* the fallback returned for a buffer of opaque pixels, none of which passes
C8_GrayBuffer ==
  /\ exOut = StatedFallback(exIdx)
  /\ Len(exPx) = MaxPixels
  /\ \A k \in 1 .. Len(exPx) : exPx[k][4] = 255

\* C9: any two distinct picks have circular hue distance
\* min(|a - b|, 360 - |a - b|) of at least 32 degrees.
C9_PicksHueSeparated ==
  \A j, k \in 1 .. Len(exPicks) :
    j # k => Min2(Abs(hueOf(exPicks[j]) - hueOf(exPicks[k])),
                  360 - Abs(hueOf(exPicks[j]) - hueOf(exPicks[k]))) >= 32

\* several picks, and a bin as heavy as the heaviest that was not picked:
\* its hue is within 32 degrees of a pick's across the 0/360 wrap
C9_NearBinSkipped ==
  /\ Len(exPicks) >= 2
  /\ \E b \in DOMAIN hist, j \in 1 .. Len(exPicks) :
       /\ \A k \in 1 .. Len(exPicks) : exPicks[k] # b
       /\ hist[b] = hist[exPicks[1]]
       /\ Abs(hueOf(b) - hueOf(exPicks[j])) > 180

\* slot n of a palette, and the lightness extractColors renders slot n at
Slot(pal, n) ==
  CASE n = 1 -> pal.c1 [] n = 2 -> pal.c2 [] n = 3 -> pal.c3 [] OTHER -> pal.c4

SlotLightness == <<(50 * FX) \div 100, (68 * FX) \div 100, (60 * FX) \div 100,
                   (72 * FX) \div 100>>

\* an extraction found between one and three picks
FewPicks == exOut # Undefined /\ Len(exPicks) >= 1 /\ Len(exPicks) < MaxPicks

C11_ExtractionFailureFallsBack ==
  /\ pc \notin {"load", "loading"} => DOMAIN gradPalette = Idx
  /\ gradPalette # <<>> =>
       \A i \in Idx :
         ~images[i].ok =>
           /\ gradPalette[i].c1 = StatedFallback(i).c1
           /\ gradPalette[i].c2 = StatedFallback(i).c2
           /\ gradPalette[i].c3 = MixColor(StatedFallback(i).c1, 10)
           /\ gradPalette[i].c4 = MixColor(StatedFallback(i).c2, 15)

\* init() has finished and the carousel loop has run a frame on a page with
\* an image whose canvas cannot be read
C11_LoopsRunAfterFailure ==
  /\ pc = "running"
  /\ lastTime # 0
  /\ \E i \in Idx : ~images[i].ok /\ i > 0 /\ gradPalette[i].c1 = StatedFallback(i).c1

\* C12: with zero items or zero track length every operation that depends on
\* the track length guards and no-ops: no modulo by zero is evaluated and the
\* offset remains a well-defined number.
C12_ZeroTrackOffsetDefined ==
  TRACK = 0 => SCROLL_X # NaN

\* the pending frame callbacks of the carousel loop and of the background
\* loop in the next state
CarouselPending == {f \in frames' : f.fn \in {"first", "tick"}}
BgPending == {f \in frames' : f.fn = "bg"}

\* the visibilitychange listener ran in this step
Hides == ~hidden /\ hidden'
Restores == hidden /\ ~hidden'

\* after the listener has run for a hidden page no callback of either loop
\* is pending and rafId and bgRAF are null
BothStopped ==
  Hides => /\ rafId' = 0
           /\ bgRAF' = 0
           /\ CarouselPending = {}
           /\ BgPending = {}

\* C13 as amended: on a visibility-hidden signal both loops are stopped; on a
\* visibility-restored signal the carousel loop is started with exactly one
\* pending frame callback, the one rafId refers to, and so is the background
\* loop when the page has a usable background canvas; without one startBG
\* returns at once and no background callback is pending.
C13_VisibilityStopsAndRestarts ==
  [][/\ BothStopped
     /\ Restores =>
          /\ Cardinality(CarouselPending) = 1
          /\ \A f \in CarouselPending : f.h = rafId'
          /\ IF hasCtx
             THEN /\ Cardinality(BgPending) = 1
                  /\ \A f \in BgPending : f.h = bgRAF'
             ELSE BgPending = {} /\ bgRAF' = 0]_vars

\* both loops restarted while init() is still warming up: only the
\* visibilitychange listener can have started them
C13_RestartedDuringEntry ==
  /\ pc = "warmup"
  /\ ~hidden
  /\ hasCtx
  /\ \E f \in frames : f.fn = "first" /\ f.h = rafId
  /\ \E f \in frames : f.fn = "bg" /\ f.h = bgRAF

\* C13 as stated: on a visibility-hidden signal both loops are stopped; on a
\* visibility-restored signal both loops are started again, each with exactly
\* one pending frame callback.
C13_BothRestarted ==
  [][/\ BothStopped
     /\ Restores =>
          /\ Cardinality(CarouselPending) = 1
          /\ Cardinality(BgPending) = 1]_vars

\* the background was painted in this step
Paints == lastBgDraw' # lastBgDraw

\* C14 as amended: the background renderer repaints only if the time since
\* its previous paint is at least the frame budget, 16 ms while
\* now < bgFastUntil and 33 ms otherwise; two consecutive paints are at
\* least 16 ms apart, and at least 33 ms apart when the later one is outside
\* a fast window.
C14_PaintsAtLeastBudgetApart ==
  [][Paints =>
       /\ lastBgDraw' = now
       /\ lastBgDraw' - lastBgDraw >= 16 * TU
       /\ ~(lastBgDraw' < bgFastUntil) => lastBgDraw' - lastBgDraw >= 33 * TU]_vars

\* a paint exactly 16 ms after the previous one, inside the fast window
C14_PaintAtBudget ==
  /\ lastBgDraw = (BgStartMs + 16) * TU
  /\ lastBgDraw < bgFastUntil

\* C14 as stated: two consecutive paints are more than 16 ms apart, and more
\* than 33 ms apart when the later one is outside a fast window.
C14_PaintsMoreThanBudgetApart ==
  [][Paints =>
       /\ lastBgDraw' - lastBgDraw > 16 * TU
       /\ ~(lastBgDraw' < bgFastUntil) => lastBgDraw' - lastBgDraw > 33 * TU]_vars

\* C15: while a drag is in progress a pointer move by dx sets the offset to
\* the value in [0, TRACK) congruent to offset - dx * DRAG_SENS and records
\* lastDelta = dx / dt; a press records lastDelta = 0 and nothing else
\* changes lastDelta; a release replaces the velocity by
\* -lastDelta * DRAG_SENS; pointer moves and releases outside a drag change
\* neither offset nor velocity.
C15_DragSetsOffsetAndVelocity ==
  [][/\ \A x \in PointerXs :
          (PointerMove(x) /\ dragging) =>
            /\ SCROLL_X' >= 0
            /\ SCROLL_X' < TRACK
            /\ (SCROLL_X' - (SCROLL_X - (x - lastX) * PX)) % TRACK = 0
            /\ lastDelta' = ((x - lastX) * VS * 1000 * TU)
                              \div (IF now - lastT > TU THEN now - lastT ELSE TU)
            /\ vX' = vX
     /\ \A x \in PointerXs : (PointerDown(x) /\ ~isEntering) => lastDelta' = 0
     /\ lastDelta' # lastDelta =>
          \E x \in PointerXs : PointerDown(x) \/ (PointerMove(x) /\ dragging)
     /\ (PointerUp /\ dragging) => (vX' = -lastDelta /\ ~dragging')
     /\ (~dragging /\ (PointerUp \/ \E x \in PointerXs : PointerMove(x))) =>
          (SCROLL_X' = SCROLL_X /\ vX' = vX /\ ~dragging')]_vars

\* the carousel had coasted away from offset 0 when a press and a release
\* without movement left it with velocity 0
C15_ReleasedAtRest ==
  /\ ~dragging
  /\ evts > 0
  /\ lastDelta = 0
  /\ vX = 0
  /\ SCROLL_X # 0

\* C16: activeIndex is -1 until the first position resolution; with or
\* without a usable background canvas, after every position resolution
\* activeIndex equals the nearest index found by that resolution's scan
\* (closestIdx, -1 before any scan); activeIndex is always -1 or an item index.
C16_ActiveIsNearest ==
  /\ activeIndex = closestIdx
  /\ activeIndex \in {-1} \cup Idx

\* the blur is 0 px; the blur is more than 0 px
BlurZero(b) == b.coef = 0 \/ b.num = 0
BlurPositive(b) == b.coef > 0 /\ b.num > 0

\* C17: in every rendered frame, in either variant of the script, the item
\* nearest center has blur 0 and every other item has blur
\* BLUR_COEF * |n|^1.1 with n = clamp(pos / VW_HALF, -1, 1), which is
\* strictly positive when the item's wrapped position is not 0: the
\* neighbours of the nearest item are blurred too.
C17_OnlyNearestUnblurred ==
  \A v \in Variants :
    \A i \in DOMAIN positions :
      LET b == StyleOf(v, i, positions, closestIdx, VW_HALF).blur
          n == IF positions[i] < -VW_HALF THEN -VW_HALF
               ELSE IF positions[i] > VW_HALF THEN VW_HALF ELSE positions[i]
      IN /\ i = closestIdx => BlurZero(b)
         /\ i # closestIdx =>
              /\ b.coef = BlurCoef(v)
              /\ b.num = Abs(n)
              /\ b.den = VW_HALF
              /\ positions[i] # 0 => BlurPositive(b)

\* C18: for every screenX, with n = clamp(screenX / VW_HALF, -1, 1),
\* transformForScreenX yields rotationY = -n * 28 in [-28, 28],
\* depthZ = (1 - |n|) * 140 in [0, 140] and
\* scale = MIN_SCALE + (1 - |n|) * SCALE_RANGE in
\* [MIN_SCALE, MIN_SCALE + SCALE_RANGE]; depth and scale are non-increasing
\* in |screenX|, maximal at screenX = 0 (rotation 0), and constant (depth 0,
\* scale MIN_SCALE, rotation +-28) for |screenX| >= VW_HALF.  All values are
\* numerators over VW_HALF (scale over 100 * VW_HALF).
C18_TransformRanges ==
  proj.out # Undefined =>
    LET h == proj.half
        x == proj.x
        o == proj.out
        n == IF x < -h THEN -h ELSE IF x > h THEN h ELSE x
        lo == MinScalePct(proj.v)
        rg == ScaleRangePct(proj.v)
    IN /\ o.den = h
       /\ o.ry = -n * 28 /\ o.ry >= -28 * h /\ o.ry <= 28 * h
       /\ o.tz = (h - Abs(n)) * 140 /\ o.tz >= 0 /\ o.tz <= 140 * h
       /\ o.scale = lo * h + (h - Abs(n)) * rg
       /\ o.scale >= lo * h /\ o.scale <= (lo + rg) * h
       /\ \A y \in ScreenXs :
            Abs(y) <= Abs(x) =>
              /\ transformForScreenX(y, h, proj.v).tz >= o.tz
              /\ transformForScreenX(y, h, proj.v).scale >= o.scale
       /\ x = 0 => (o.ry = 0 /\ o.tz = 140 * h /\ o.scale = (lo + rg) * h)
       /\ Abs(x) >= h => (o.tz = 0 /\ o.scale = lo * h /\ Abs(o.ry) = 28 * h)

\* an offset beyond the viewport edge was projected to depth 0
C18_BeyondViewport ==
  /\ proj.out # Undefined
  /\ Abs(proj.x) > proj.half
  /\ proj.out.tz = 0
  /\ proj.out.ry = 28 * proj.half

\* the order the specification scans the bins in: heavier first, equal
\* weights by ascending bin index
ScannedBefore(ws, a, b) == ws[a] > ws[b] \/ (ws[a] = ws[b] /\ a < b)

\* the hue of a bin in degrees (36 hue buckets of 10 degrees, 5 saturation
\* buckets each) and the distance of two hues around the circle
StatedHue(b) == (b \div 5) * 10
StatedHueDist(a, b) ==
  IF Abs(a - b) <= 360 - Abs(a - b) THEN Abs(a - b) ELSE 360 - Abs(a - b)

RECURSIVE StatedGreedy(_, _, _)
\* the greedy selection as specified: every non-empty bin is visited, in
\* scan order, and is skipped if 4 picks are made, if its weight is below
\* 22% of the top bin's weight, or if its hue is less than 32 degrees from a
\* picked hue
StatedGreedy(ws, left, picks) ==
  IF left = {} THEN picks
  ELSE LET b == CHOOSE c \in left : \A d \in left \ {c} : ScannedBefore(ws, c, d)
           top == CHOOSE c \in DOMAIN ws :
                    \A d \in DOMAIN ws \ {c} : ScannedBefore(ws, c, d)
           skip == \/ Len(picks) >= 4
                   \/ 100 * ws[b] < 22 * ws[top]
                   \/ \E j \in 1 .. Len(picks) :
                        StatedHueDist(StatedHue(b), StatedHue(picks[j])) < 32
       IN StatedGreedy(ws, left \ {b}, IF skip THEN picks ELSE Append(picks, b))

FirstFrameStep ==
  \E f \in frames :
    f.fn = "first" /\ f \notin frames' /\ \E g \in frames' \ frames : g.fn = "tick"
LaterFrameAfter(f) ==
  f.fn = "tick" /\ f \notin frames' /\ \E g \in frames' \ frames : g.fn = "tick"

\* C20: the first carousel frame after startCarousel integrates with dt = 0
\* and leaves the offset unchanged however long the loop was stopped; every
\* later frame integrates vX times the time elapsed since the previous frame
\* of the same run.  startCarousel resets lastTime.
C20_FirstFrameHasZeroDt ==
  [][/\ FirstFrameStep => (SCROLL_X' = SCROLL_X /\ unwrapped' = SCROLL_X)
     /\ \A f \in frames :
          LaterFrameAfter(f) =>
            unwrapped' = SCROLL_X + MulDiv(vX, now - f.at, (1000 * TU * VS) \div PX)
     /\ (Restores \/ (pc # "running" /\ pc' = "running")) => lastTime' = 0]_vars

\* the carousel, coasting at 600 px/s at offset 0, was stopped before its
\* next frame and restarted; the first frame of the new run, at least two
\* frames later, has left the offset and the velocity as they were
C20_ResumedInPlace ==
  /\ ~hidden
  /\ evts = 2
  /\ vX = 600 * VS
  /\ SCROLL_X = 0
  /\ lastTime = now
  /\ now >= (CoastStart + 2) * FRAME
  /\ \E f \in frames : f.fn = "tick" /\ f.at = now

\* an onResize run happened in this step
ResizeRun == burst'.runs = burst.runs + 1

\* the time of the last resize event of the burst
LastResize == burst.events[Len(burst.events)]

\* C21: resize events are coalesced by a trailing 80 ms debounce.  While a
\* burst of resize events has not been followed by its onResize run, exactly
\* one timer is pending and it fires 80 ms after the last event of the burst;
\* the run happens no earlier than that, once per burst; and after init()'s
\* own measure() the geometry (CARD_W, STEP, TRACK, items[i].x) changes in no
\* step but an onResize run.
C21_ResizeDebounced ==
  /\ [](/\ burst.runs <= 1
        /\ (burst.runs = 1) => (resizeTimer = 0)
        /\ (burst.events # <<>> /\ burst.runs = 0)
             => (resizeTimer = LastResize + DebounceMs * TU))
  /\ [][/\ ResizeRun => (/\ burst.events # <<>>
                         /\ burst.runs = 0
                         /\ now >= LastResize + DebounceMs * TU)
        /\ (layoutVars' # layoutVars /\ pc # "load") => ResizeRun]_vars

\* two resize events 20 or 30 ms apart were followed by one onResize run,
\* exactly 80 ms after the second, which changed the step
C21_BurstOfTwo ==
  /\ Len(burst.events) = 2
  /\ burst.events[1] < burst.events[2]
  /\ burst.events[2] - burst.events[1] < DebounceMs * TU
  /\ burst.runs = 1
  /\ now = burst.events[2] + DebounceMs * TU
  /\ STEP # (InitCardW + GAP) * PX

\* measure() ran in this step and the card measured 0 px wide
MeasuredZero == InitSync(0) \/ \E iw \in InnerWidths : OnResize(0, iw)

\* C22: whenever the page has items (after init()'s measure() and after every
\* onResize), step = card width + gap, track length = item count * step > 0
\* and every item's base offset = index * step; and a measure() that finds
\* the card 0 px wide keeps the card width and the step it found.
C22_MeasureLaysOutTrack ==
  /\ [](DOMAIN itemsX # {} =>
          /\ CARD_W > 0
          /\ STEP = CARD_W + GAP * PX
          /\ TRACK = Cardinality(DOMAIN itemsX) * STEP
          /\ TRACK > 0
          /\ \A i \in DOMAIN itemsX : itemsX[i] = i * STEP)
  /\ [][MeasuredZero => (CARD_W' = CARD_W /\ STEP' = STEP)]_vars

\* init() measured the card 0 px wide and so did a later onResize: the card
\* width is still the initial 320 px and the track is laid out with it
C22_ZeroWidthMeasured ==
  /\ burst.runs = 1
  /\ CARD_W = InitCardW * PX
  /\ TRACK = NumItems * (InitCardW + GAP) * PX
  /\ itemsX[NumItems - 1] = (NumItems - 1) * STEP

\* a background frame callback (drawBackground) ran in this step
BgRan ==
  /\ \E f \in frames : f.fn = "bg" /\ f \notin frames'
  /\ UNCHANGED <<hidden, pc>>

\* C23: a drawBackground callback, painting or throttled, leaves the scroll
\* offset, the velocity, activeIndex, the drag state and the gradient channels
\* (current and target) as they were; and the channels change only in a step
\* in which setActiveGradient took a new index or gsap rendered its tween.
C23_BackgroundReadsOnly ==
  [][/\ BgRan => UNCHANGED <<SCROLL_X, vX, activeIndex, dragVars, gradCurrent,
                             gradTarget, positions, layoutVars>>
     /\ (gradCurrent' # gradCurrent \/ gradTarget' # gradTarget)
          => (activeIndex' # activeIndex \/ (tween.on /\ now' # now))]_vars

\* the background was just painted while a colour transition was in flight
\* and the carousel was coasting after a wheel turn
C23_PaintedMidTransition ==
  /\ lastBgDraw = now
  /\ now > 0
  /\ tween.on
  /\ gradCurrent # gradTarget
  /\ vX # 0
  /\ SCROLL_X # 0

\* a carousel frame callback (tick, or the first callback of startCarousel)
\* ran in this step
CarRan ==
  /\ \E f \in frames : f.fn \in {"first", "tick"} /\ f \notin frames'
  /\ UNCHANGED <<hidden, pc>>

\* C24: every carousel callback and every background callback, a throttled
\* one included, ends with exactly one callback of its loop pending, requested
\* in that callback, whose handle is in rafId or bgRAF; and a carousel
\* callback integrates the offset with the velocity it found, then decays and
\* snaps the velocity, then resolves the positions from the new offset, then
\* takes the nearest index it resolved as the active index.
C24_LoopsRescheduleInOrder ==
  [][/\ CarRan =>
          /\ \E g \in frames' : g.fn = "tick" /\ g.h = rafId' /\ g.at = now
          /\ Cardinality(CarouselPending) = 1
          /\ LET dt == IF lastTime # 0 THEN now - lastTime ELSE 0
             IN /\ SCROLL_X' = mod(SCROLL_X + Travel(vX, dt), TRACK)
                /\ vX' = Snap(Decay(vX, dt \div FRAME))
          /\ positions' = [i \in Idx |-> WrapPos(itemsX[i], SCROLL_X', TRACK)]
          /\ closestIdx' = Scan(positions', 0, -1, -1)
          /\ hasCtx => activeIndex' = closestIdx'
     /\ BgRan =>
          /\ \E g \in frames' : g.fn = "bg" /\ g.h = bgRAF' /\ g.at = now
          /\ Cardinality(BgPending) = 1]_vars

\* both loops have just run and rescheduled themselves: the carousel moved
\* after a wheel turn, and the background callback was throttled (its last
\* paint was in an earlier frame)
C24_ThrottledAndMoving ==
  /\ ~hidden
  /\ evts = 1
  /\ vX # 0
  /\ SCROLL_X # 0
  /\ \E f \in frames : f.fn = "tick" /\ f.h = rafId /\ f.at = now
  /\ \E f \in frames : f.fn = "bg" /\ f.h = bgRAF /\ f.at = now
  /\ lastBgDraw > 0
  /\ lastBgDraw < now

\* the pending callbacks of each loop
CarouselFrames == {f \in frames : f.fn \in {"first", "tick"}}
BgFrames == {f \in frames : f.fn = "bg"}

\* C25: in every reachable state each loop has at most one pending frame
\* callback, and rafId (bgRAF) is non-null exactly when a callback of the
\* carousel (background) loop is pending, and is then its handle.
C25_OneCallbackPerLoop ==
  /\ Cardinality(CarouselFrames) <= 1
  /\ Cardinality(BgFrames) <= 1
  /\ rafId # 0 <=> CarouselFrames # {}
  /\ bgRAF # 0 <=> BgFrames # {}
  /\ \A f \in CarouselFrames : f.h = rafId
  /\ \A f \in BgFrames : f.h = bgRAF

\* init() has ended after the page was hidden and shown again while it was
\* warming up (the background was painted before the warmup ended):
\* startCarousel and startBG have each run twice, and one callback of each
\* loop is pending
C25_StartedTwice ==
  /\ pc = "running"
  /\ ~hidden
  /\ lastBgDraw > 0
  /\ lastBgDraw < warm.at
  /\ \E f \in CarouselFrames : f.fn = "first" /\ f.at >= warm.at
  /\ Cardinality(CarouselFrames) = 1
  /\ Cardinality(BgFrames) = 1

\* C26: while the page is hidden (from a visibility-hidden signal until the
\* next visibility-restored signal) neither loop has a pending frame
\* callback, also when init() reaches its end in that time.
C26_NothingPendingWhileHidden ==
  hidden => (CarouselFrames = {} /\ BgFrames = {} /\ rafId = 0 /\ bgRAF = 0)

\* the warmup sweep of init() ran in this step
WarmupStep ==
  /\ pc \in {"loading", "warmup"}
  /\ pc' \in {"warmup", "warmEnd1"}
  /\ pc' # pc \/ warm'.i # warm.i

\* C27 as amended: while isEntering is true the velocity is 0 and no drag is
\* in progress, whatever wheel and pointer events arrive; an input event then
\* changes nothing but the count of events; the offset changes only in a step
\* of the warmup sweep or in a debounced onResize run (which rescales it); and
\* when the sweep ends the offset is the one it started from.
C27_InputIgnoredWhileEntering ==
  /\ [](isEntering => (vX = 0 /\ ~dragging /\ lastDelta = 0))
  /\ [](pc \in {"warmEnd1", "warmEnd2", "idle"} => SCROLL_X = warm.orig)
  /\ [][/\ (isEntering /\ evts' # evts /\ hidden' = hidden /\ burst' = burst)
            => UNCHANGED <<SCROLL_X, vX, dragVars, positions, activeIndex,
                           loopVars, layoutVars>>
        /\ (isEntering /\ SCROLL_X' # SCROLL_X) => (WarmupStep \/ ResizeRun)
        /\ (isEntering /\ ~isEntering') => (pc = "idle" /\ pc' = "running")]_vars

\* two input events arrived during the warmup sweep and were ignored, and
\* the sweep has restored the offset
C27_IgnoredDuringWarmup ==
  /\ isEntering
  /\ pc = "warmEnd1"
  /\ evts = 2
  /\ ~hidden
  /\ rafId = 0
  /\ burst = NoBurst
  /\ SCROLL_X = 0

\* C27 as stated: while isEntering is true the velocity stays 0, no drag
\* begins, and the offset is changed only by the warmup sweep, which restores
\* the offset it started from.
C27_OffsetOnlyBySweep ==
  /\ [](isEntering => (vX = 0 /\ ~dragging))
  /\ [](pc \in {"warmEnd1", "warmEnd2", "idle"} => SCROLL_X = warm.orig)
  /\ [][(isEntering /\ SCROLL_X' # SCROLL_X) => WarmupStep]_vars

\* C28: on a page with a background canvas, once init() has completed, the
\* gradient target last applied is the palette buildPalette extracted for
\* the item at activeIndex, and without gsap the current channels equal it.
C28_TargetIsActivePalette ==
  (hasCtx /\ pc = "running") =>
     /\ activeIndex \in Idx
     /\ activeIndex \in DOMAIN gradPalette
     /\ gradTarget = ToChannels(gradPalette[activeIndex])
     /\ ~gsap => gradCurrent = gradTarget

\* init() has just completed with the item centred at startup active: its
\* palette, extracted after the first position resolution had made it active
\* with the default grays, is the gradient target
C28_StartupItemPalette ==
  /\ hasCtx
  /\ pc = "running"
  /\ evts = 0
  /\ lastTime = 0
  /\ activeIndex = 0
  /\ gradTarget = ToChannels(PalAt(gradPalette, 0))
  /\ gradTarget # InitGradCurrent

\* the zIndex the last position resolution wrote on item i, in variant v
StackOf(v, i) == StyleOf(v, i, positions, closestIdx, VW_HALF).zIndex

\* C29: after every position resolution no item is stacked strictly above
\* the item found nearest the centre: its zIndex, 1000 + round(depth), is the
\* greatest of all, ties allowed, in both variants of the script.
C29_NearestStackedOnTop ==
  (positions # <<>> /\ closestIdx \in DOMAIN positions) =>
     \A v \in Variants : \A i \in DOMAIN positions :
        StackOf(v, i) <= StackOf(v, closestIdx)

\* the nearest item is off centre and shares the top of the stack with the
\* item as far from the centre on the other side, above the items beyond
\* the viewport
C29_TieOnTop ==
  /\ positions # <<>>
  /\ closestIdx \in DOMAIN positions
  /\ positions[closestIdx] # 0
  /\ \E i \in DOMAIN positions :
       /\ i # closestIdx
       /\ StackOf("part_000", i) = StackOf("part_000", closestIdx)
  /\ \E i \in DOMAIN positions :
       StackOf("part_000", i) < StackOf("part_000", closestIdx)

============================================================================
